---- MODULE Spec2Model ----
(***************************************************************************)
(* Upbit AutoBot: the live trading loop (server/upbit.ts), the settings    *)
(* and manual-trade handlers (server/routes.ts) and the store              *)
(* (server/storage.ts).                                                    *)
(*                                                                         *)
(* Number representation (JavaScript doubles become integers):             *)
(*   - time is in milliseconds;                                            *)
(*   - prices and KRW amounts are whole KRW;                               *)
(*   - referencePrice is kept in 1/RefScale KRW (the grid strategy stores  *)
(*     fractional references);                                             *)
(*   - buyThreshold / sellThreshold are kept in hundredths of the stored   *)
(*     number ("0.5" is 50), so that "percent / 100" is a number of basis  *)
(*     points; feeRate is kept in basis points ("0.0005" is 5);            *)
(*   - coin volumes are kept in 1/VolScale coin.                           *)
(* A NULL column is Null; comparisons of quotients are cross-multiplied.   *)
(***************************************************************************)
EXTENDS Integers, Sequences, FiniteSets, TLC

\* ------------------------------------------------------------------ bounds
MaxInFlight == 2      \* ticks that may be in flight at once
MaxTicks == 2         \* timer firings explored
MaxAttempts == 2      \* order placements explored
MaxCalls == 1         \* requests to the API explored
StartTime == 4000000   \* Date.now() when the process boots
MaxRestarts == 1      \* restarts of the process explored
MaxWriters == 2       \* updateBotSettings calls that can be in flight together
MaxSeriesLen == 4     \* longest price series a short-period indicator is tried on

\* ------------------------------------------------------- program constants
TickMs == 10000
minOrderValue == 5000
slippageMargin == 5
hourInMs == 3600000

\* --------------------------------------------------------- representation
Null == 0 - 1          \* a NULL column
NoWrite == 0 - 2       \* a column a partial update does not name
RefScale == 10 * 10    \* referencePrice unit: 1/100 KRW
BpScale == 100 * 100   \* thresholds and fee rates: 1/10000
VolScale == 10 * 10    \* coin volume unit: 1/100 coin

Users == {"u1", "u2"}
UserOrder == <<"u1", "u2">>
Strategies == {"percent", "dca", "grid", "rsi", "ma", "bollinger"}

Max(a, b) == IF a >= b THEN a ELSE b
Min(a, b) == IF a <= b THEN a ELSE b
Abs(a) == IF a < 0 THEN -a ELSE a

RECURSIVE SumSeq(_)
SumSeq(s) == IF s = <<>> THEN 0 ELSE Head(s) + SumSeq(Tail(s))

\* prices.slice(-n)
LastN(s, n) == IF n >= Len(s) THEN s ELSE SubSeq(s, Len(s) - n + 1, Len(s))

\* a*b < c*d for naturals, without forming the products (Euclid on a/c < d/b)
RECURSIVE FracLess(_, _, _, _)
FracLess(p1, q1, p2, q2) ==
  LET i1 == p1 \div q1
      i2 == p2 \div q2
      r1 == p1 % q1
      r2 == p2 % q2
  IN IF i1 # i2 THEN i1 < i2
     ELSE IF r2 = 0 THEN FALSE
     ELSE IF r1 = 0 THEN TRUE
     ELSE FracLess(q2, r2, q1, r1)

ProdLess(a, b, c, d) ==
  IF c = 0 \/ d = 0 THEN FALSE
  ELSE IF a = 0 \/ b = 0 THEN TRUE
  ELSE FracLess(a, c, d, b)

\* ------------------------------------------------------- indicator library
\* variant of calculateRSI: the average loss is not compared with zero
calculateRSI_Unguarded(prices, period) ==
  IF Len(prices) < period + 1 THEN [num |-> 50, den |-> 1]
  ELSE LET change(i) == prices[i] - prices[i - 1]
           gains == SumSeq([k \in 1..period |->
                       LET c == change(Len(prices) - period + k)
                       IN IF c > 0 THEN c ELSE 0])
           losses == SumSeq([k \in 1..period |->
                       LET c == change(Len(prices) - period + k)
                       IN IF c > 0 THEN 0 ELSE Abs(c)])
       IN [num |-> 100 * gains, den |-> gains + losses]

\* calculateRSI as the fraction num/den
calculateRSI(prices, period) ==
  IF Len(prices) < period + 1 THEN [num |-> 50, den |-> 1]
  ELSE LET idx == (Len(prices) - period + 1)..Len(prices)
           change(i) == prices[i] - prices[i - 1]
           gains == SumSeq([k \in 1..period |->
                       LET c == change(Len(prices) - period + k)
                       IN IF c > 0 THEN c ELSE 0])
           losses == SumSeq([k \in 1..period |->
                       LET c == change(Len(prices) - period + k)
                       IN IF c > 0 THEN 0 ELSE Abs(c)])
       IN IF losses = 0 THEN [num |-> 100, den |-> 1]
          ELSE [num |-> 100 * gains, den |-> gains + losses]

\* calculateSMA as the fraction num/den; den = 0 stands for a division by a
\* zero period (Infinity)
calculateSMA(prices, period) ==
  IF Len(prices) < period
  THEN [num |-> IF Len(prices) = 0 THEN 0 ELSE prices[Len(prices)], den |-> 1]
  ELSE IF period = 0 THEN [num |-> SumSeq(prices), den |-> 0]
  ELSE [num |-> SumSeq(LastN(prices, period)), den |-> period]

\* calculateBollingerBands over the last `period` closes: S is their sum and
\* Q = sum (period*p - S)^2, so middle = S/period and
\* std = sqrt(Q / period^3); short history collapses the bands (Q = 0)
calculateBollingerBands(prices, period) ==
  IF Len(prices) < period
  THEN [S |-> calculateSMA(prices, period).num * period, Q |-> 0, n |-> period]
  ELSE LET slice == LastN(prices, period)
           S == SumSeq(slice)
       IN [S |-> S,
           Q |-> SumSeq([k \in 1..period |-> (period * slice[k] - S) * (period * slice[k] - S)]),
           n |-> period]

\* ---------------------------------------------------------------- fee model
getFeeRate(settings) == IF settings.feeRate = Null THEN 5 ELSE settings.feeRate

getFeeBuffer(settings) == getFeeRate(settings) * 2 + slippageMargin

calculateFee(amount, settings) == (amount * getFeeRate(settings)) \div BpScale

\* ------------------------------------------------- what the exchange answers
Flat == [i \in 1..30 |-> 1000]
SpikeUp == [i \in 1..30 |-> IF i = 30 THEN 1100 ELSE 1000]
SpikeDown == [i \in 1..30 |-> IF i = 30 THEN 900 ELSE 1000]

\* closes swinging between 900 and 1100, the last one 1100
Swing == [i \in 1..30 |-> IF i % 2 = 1 THEN 900 ELSE 1100]

\* getCandles: closes oldest first; <<>> when the request fails
CandleSeries == {<<>>, Flat, SpikeUp, SpikeDown, Swing}

\* getCurrentPrice: 0 when the request fails
PricesOf(market) == IF market = "KRW-BTC" THEN {0, 994, 997, 1010} ELSE {0, 500}

\* getAccountBalance: 0 when the request fails or the account is missing
KrwBalances == {0, 20000}
CoinBalances == {0, 20}

\* placeBuyOrder / placeSellOrder: success, or the caught failure
OrderResults == BOOLEAN

\* ------------------------------------------------------ strategy evaluator
\* What one evaluation did, in order: `init` is the reference price written
\* by first-run initialization (NoWrite when none), `steps` the orders placed,
\* each with the trade-log entry appended after it and the partial settings
\* update made when it succeeded, `threw` whether the evaluation raised.
\* An executor is the set of the outcomes it can have: every call of the
\* exchange is a choice among its answers, made where the code makes the call.
\* `read` is what the evaluation got from the exchange before it decided, kept
\* for the strategies that decide on candles.
NoRead == [candles |-> <<>>, balance |-> Null]

NoEffect == [threw |-> FALSE, init |-> NoWrite, steps |-> <<>>, read |-> NoRead]

\* the outcomes of an evaluation that read these candles and this balance
\* (Null: the balance was not asked for)
Having(candles, balance, outcomes) ==
  {[e EXCEPT !.read.candles = candles, !.read.balance = balance] : e \in outcomes}

Threw == [NoEffect EXCEPT !.threw = TRUE]

Initialized(referencePrice) == [NoEffect EXCEPT !.init = referencePrice]

\* variant of Placed: the order is placed and logged a second time
Placed_Twice(steps) == [NoEffect EXCEPT !.steps = steps \o steps]

Placed(steps) == [NoEffect EXCEPT !.steps = steps]

\* variant of BuyStep: lastTradeTime is stamped whether or not the order succeeded
BuyStep_StampsFailure(settings, amount, price, krwBalance, ok, refOnOk, t) ==
  [side |-> "bid", market |-> settings.market, price |-> price,
   amount |-> amount, volume |-> (amount * VolScale) \div price,
   ok |-> ok, balanceRead |-> krwBalance,
   status |-> IF ok THEN "success" ELSE "failed",
   feePaid |-> IF ok THEN calculateFee(amount, settings) ELSE Null,
   referencePrice |-> IF ok THEN refOnOk ELSE NoWrite,
   lastTradeTime |-> t]

\* placeBuyOrder, createTradeLog, then updateBotSettings on success; refOnOk
\* is the referencePrice written with lastTradeTime (NoWrite: only
\* lastTradeTime)
BuyStep(settings, amount, price, krwBalance, ok, refOnOk, t) ==
  [side |-> "bid", market |-> settings.market, price |-> price,
   amount |-> amount, volume |-> (amount * VolScale) \div price,
   ok |-> ok, balanceRead |-> krwBalance,
   status |-> IF ok THEN "success" ELSE "failed",
   feePaid |-> IF ok THEN calculateFee(amount, settings) ELSE Null,
   referencePrice |-> IF ok THEN refOnOk ELSE NoWrite,
   lastTradeTime |-> IF ok THEN t ELSE NoWrite]

\* placeSellOrder, createTradeLog, then updateBotSettings on success; volume
\* is in 1/VolScale coin
SellStep(settings, volume, price, coinBalance, ok, refOnOk, t) ==
  [side |-> "ask", market |-> settings.market, price |-> price,
   amount |-> 0, volume |-> volume,
   ok |-> ok, balanceRead |-> coinBalance,
   status |-> IF ok THEN "success" ELSE "failed",
   feePaid |-> IF ok THEN calculateFee((volume * price) \div VolScale, settings) ELSE Null,
   referencePrice |-> IF ok THEN refOnOk ELSE NoWrite,
   lastTradeTime |-> IF ok THEN t ELSE NoWrite]

\* variant of BuyGuard: the balance read is not compared with the amount
BuyGuard_Always(krwBalance, amount) == TRUE

\* if (krwBalance >= amount) { place, log, update }
BuyGuard(krwBalance, amount) == krwBalance >= amount

\* if (orderValue >= minOrderValue) { place, log, update }; volume in 1/VolScale
SellGuard(volume, price) == volume * price >= minOrderValue * VolScale

\* the buy branch once its signal holds: read the KRW balance, then buy
BuyBranch(settings, amount, price, refOnOk, t) ==
  UNION {IF BuyGuard(krw, amount)
         THEN {<<BuyStep(settings, amount, price, krw, ok, refOnOk, t)>> : ok \in OrderResults}
         ELSE {<<>>} : krw \in KrwBalances}

\* the sell branch once its signal holds: read the coin balance, then sell
\* ratio/VolScale of it
SellBranch(settings, ratio, price, refOnOk, t) ==
  UNION {IF SellGuard(coin * ratio, price)
         THEN {<<SellStep(settings, coin * ratio, price, coin, ok, refOnOk, t)>> :
                 ok \in OrderResults}
         ELSE {<<>>} : coin \in CoinBalances}

ParseOr(field, default) == IF field = Null THEN default ELSE field

\* variant of ParseReference: the column is used as it is, unset or not
ParseReference_Raw(settings) == settings.referencePrice

\* settings.referencePrice ? parseFloat(settings.referencePrice) : 0
ParseReference(settings) == ParseOr(settings.referencePrice, 0)

\* variant of HasKeys: only the access key is looked at
HasKeys_AccessOnly(settings) == settings.upbitAccessKey

\* settings.lastTradeTime ? new Date(settings.lastTradeTime).getTime() : 0
ParseLastTradeTime(settings) == ParseOr(settings.lastTradeTime, 0)

HasKeys(settings) == settings.upbitAccessKey /\ settings.upbitSecretKey

\* Date.now() - lastTradeTime < cooldown
CoolingDown(settings, t, cooldown) == t - ParseLastTradeTime(settings) < cooldown

\* variant of Effective: the fee buffer is used whatever the threshold
Effective_FeeBufferOnly(threshold, feeBuffer) == feeBuffer

\* variant of Effective: the configured threshold is used as it is
Effective_Configured(threshold, feeBuffer) == threshold

\* Math.max(threshold, feeBuffer)
Effective(threshold, feeBuffer) == Max(threshold, feeBuffer)

\* priceChange <= -effectiveBuyThreshold, with priceChange = diff / referencePrice
PercentBuySignal(diff, referencePrice, buyThreshold, feeBuffer) ==
  diff * BpScale <= -(Effective(buyThreshold, feeBuffer) * referencePrice)

\* priceChange >= effectiveSellThreshold
PercentSellSignal(diff, referencePrice, sellThreshold, feeBuffer) ==
  diff * BpScale >= Effective(sellThreshold, feeBuffer) * referencePrice

\* if (referencePrice === 0): first-run initialization of the percent and grid
\* executors
AwaitingReference(settings) == ParseReference(settings) = 0

\* variant of PercentAt: the reference is initialized before the price is
\* looked at
PercentAt_InitializesFirst(settings, currentPrice, t) ==
  LET buyThreshold == ParseOr(settings.buyThreshold, 50)
      sellThreshold == ParseOr(settings.sellThreshold, 50)
      targetAmount == ParseOr(settings.targetAmount, 10000)
      feeBuffer == getFeeBuffer(settings)
      referencePrice == ParseReference(settings)
      diff == currentPrice * RefScale - referencePrice
      buys == IF PercentBuySignal(diff, referencePrice, buyThreshold, feeBuffer)
              THEN BuyBranch(settings, targetAmount, currentPrice,
                             currentPrice * RefScale, t)
              ELSE {<<>>}
      sells == IF PercentSellSignal(diff, referencePrice, sellThreshold, feeBuffer)
               THEN SellBranch(settings, VolScale, currentPrice,
                               currentPrice * RefScale, t)
               ELSE {<<>>}
  IN IF AwaitingReference(settings) THEN {Initialized(currentPrice * RefScale)}
     ELSE IF currentPrice = 0 THEN {NoEffect}
     ELSE IF CoolingDown(settings, t, 30000) THEN {NoEffect}
     ELSE {Placed(b \o s) : b \in buys, s \in sells}

PercentAt(settings, currentPrice, t) ==
  LET buyThreshold == ParseOr(settings.buyThreshold, 50)
      sellThreshold == ParseOr(settings.sellThreshold, 50)
      targetAmount == ParseOr(settings.targetAmount, 10000)
      feeBuffer == getFeeBuffer(settings)
      referencePrice == ParseReference(settings)
      diff == currentPrice * RefScale - referencePrice
      buys == IF PercentBuySignal(diff, referencePrice, buyThreshold, feeBuffer)
              THEN BuyBranch(settings, targetAmount, currentPrice,
                             currentPrice * RefScale, t)
              ELSE {<<>>}
      sells == IF PercentSellSignal(diff, referencePrice, sellThreshold, feeBuffer)
               THEN SellBranch(settings, VolScale, currentPrice,
                               currentPrice * RefScale, t)
               ELSE {<<>>}
  IN IF currentPrice = 0 THEN {NoEffect}
     ELSE IF AwaitingReference(settings) THEN {Initialized(currentPrice * RefScale)}
     ELSE IF CoolingDown(settings, t, 30000) THEN {NoEffect}
     ELSE {Placed(b \o s) : b \in buys, s \in sells}

executePercentStrategy(settings, t) ==
  IF ~HasKeys(settings) THEN {NoEffect}
  ELSE UNION {PercentAt(settings, price, t) : price \in PricesOf(settings.market)}

\* variant of DCAAt: the buy is not held back by the price
DCAAt_AnyPrice(settings, prices, t) ==
  LET targetAmount == ParseOr(settings.targetAmount, 10000)
      feeBuffer == getFeeBuffer(settings)
      currentPrice == prices[Len(prices)]
      last10 == SumSeq(LastN(prices, 10))
  IN IF Len(prices) < 15 THEN Having(prices, Null, {NoEffect})
     ELSE IF currentPrice = 0 THEN Having(prices, Null, {NoEffect})
     ELSE UNION {Having(prices, krw,
                   IF BuyGuard(krw, targetAmount)
                   THEN {Placed(<<BuyStep(settings, targetAmount, currentPrice, krw, ok,
                                          NoWrite, t)>>) : ok \in OrderResults}
                   ELSE {NoEffect}) : krw \in KrwBalances}

\* the DCA decision once the hour has passed and the candles are in
DCAAt(settings, prices, t) ==
  LET targetAmount == ParseOr(settings.targetAmount, 10000)
      feeBuffer == getFeeBuffer(settings)
      currentPrice == prices[Len(prices)]
      last10 == SumSeq(LastN(prices, 10))
  IN IF Len(prices) < 15 THEN Having(prices, Null, {NoEffect})
     ELSE IF currentPrice = 0 THEN Having(prices, Null, {NoEffect})
     \* priceVsAvg = (currentPrice - last10/10) / (last10/10) > feeBuffer * 3
     ELSE IF (10 * currentPrice - last10) * BpScale > feeBuffer * 3 * last10
          THEN Having(prices, Null, {NoEffect})
     ELSE UNION {Having(prices, krw,
                   IF BuyGuard(krw, targetAmount)
                   THEN {Placed(<<BuyStep(settings, targetAmount, currentPrice, krw, ok,
                                          NoWrite, t)>>) : ok \in OrderResults}
                   ELSE {NoEffect}) : krw \in KrwBalances}

executeDCAStrategy(settings, t) ==
  IF ~HasKeys(settings) THEN {NoEffect}
  ELSE IF CoolingDown(settings, t, hourInMs) THEN {NoEffect}
  ELSE UNION {DCAAt(settings, candles, t) : candles \in CandleSeries}

\* variant of GridAt: a successful order moves the reference to the price read
GridAt_ReferenceAtPrice(settings, currentPrice, t) ==
  LET gridStep == ParseOr(settings.buyThreshold, 100)
      targetAmount == ParseOr(settings.targetAmount, 10000)
      feeBuffer == getFeeBuffer(settings)
      effectiveGridStep == Effective(gridStep, feeBuffer)
      referencePrice == ParseReference(settings)
      diff == currentPrice * RefScale - referencePrice
      \* Math.floor(Math.abs(priceChange) / effectiveGridStep)
      gridLevels == (Abs(diff) * BpScale) \div (effectiveGridStep * referencePrice)
      buyAmount == targetAmount * gridLevels
      \* sellRatio = Math.min(gridLevels * 0.25, 1), in 1/VolScale
      sellRatio == Min(gridLevels * 25, VolScale)
  IN IF currentPrice = 0 THEN {NoEffect}
     ELSE IF AwaitingReference(settings) THEN {Initialized(currentPrice * RefScale)}
     ELSE IF CoolingDown(settings, t, 30000) THEN {NoEffect}
     ELSE IF gridLevels >= 1
          THEN IF diff < 0
               THEN {Placed(b) : b \in BuyBranch(settings, buyAmount, currentPrice,
                       currentPrice * RefScale,
                       t)}
               ELSE IF diff > 0
               THEN {Placed(s) : s \in SellBranch(settings, sellRatio, currentPrice,
                       currentPrice * RefScale,
                       t)}
               ELSE {NoEffect}
          ELSE {NoEffect}

GridAt(settings, currentPrice, t) ==
  LET gridStep == ParseOr(settings.buyThreshold, 100)
      targetAmount == ParseOr(settings.targetAmount, 10000)
      feeBuffer == getFeeBuffer(settings)
      effectiveGridStep == Effective(gridStep, feeBuffer)
      referencePrice == ParseReference(settings)
      diff == currentPrice * RefScale - referencePrice
      \* Math.floor(Math.abs(priceChange) / effectiveGridStep)
      gridLevels == (Abs(diff) * BpScale) \div (effectiveGridStep * referencePrice)
      buyAmount == targetAmount * gridLevels
      \* sellRatio = Math.min(gridLevels * 0.25, 1), in 1/VolScale
      sellRatio == Min(gridLevels * 25, VolScale)
  IN IF currentPrice = 0 THEN {NoEffect}
     ELSE IF AwaitingReference(settings) THEN {Initialized(currentPrice * RefScale)}
     ELSE IF CoolingDown(settings, t, 30000) THEN {NoEffect}
     ELSE IF gridLevels >= 1
          THEN IF diff < 0
               THEN {Placed(b) : b \in BuyBranch(settings, buyAmount, currentPrice,
                       (referencePrice * (BpScale - effectiveGridStep * gridLevels)) \div BpScale,
                       t)}
               ELSE IF diff > 0
               THEN {Placed(s) : s \in SellBranch(settings, sellRatio, currentPrice,
                       (referencePrice * (BpScale + effectiveGridStep * gridLevels)) \div BpScale,
                       t)}
               ELSE {NoEffect}
          ELSE {NoEffect}

executeGridStrategy(settings, t) ==
  IF ~HasKeys(settings) THEN {NoEffect}
  ELSE UNION {GridAt(settings, price, t) : price \in PricesOf(settings.market)}

\* The log line of either branch reads expectedMovePct, which no scope
\* declares: evaluating it raises a ReferenceError before the order is placed.
RSIAt(settings, prices, t) ==
  LET targetAmount == ParseOr(settings.targetAmount, 10000)
      buyThreshold == ParseOr(settings.buyThreshold, 3000)
      sellThreshold == ParseOr(settings.sellThreshold, 7000)
      currentPrice == prices[Len(prices)]
      rsi == calculateRSI(prices, 14)
  IN IF Len(prices) < 15 THEN {NoEffect}
     \* rsi < buyThreshold
     ELSE IF rsi.num * 100 < buyThreshold * rsi.den
          THEN {IF BuyGuard(krw, targetAmount) THEN Threw ELSE NoEffect : krw \in KrwBalances}
     \* rsi > sellThreshold
     ELSE IF rsi.num * 100 > sellThreshold * rsi.den
          THEN {IF SellGuard(coin * VolScale, currentPrice) THEN Threw ELSE NoEffect :
                  coin \in CoinBalances}
     ELSE {NoEffect}

executeRSIStrategy(settings, t) ==
  IF ~HasKeys(settings) THEN {NoEffect}
  ELSE IF CoolingDown(settings, t, 60000) THEN {NoEffect}
  ELSE UNION {RSIAt(settings, candles, t) : candles \in CandleSeries}

\* a < b and a <= b for the fractions calculateSMA returns; a zero
\* denominator is Infinity (the closes are positive)
SmaLess(a, b) ==
  IF a.den = 0 THEN FALSE
  ELSE IF b.den = 0 THEN TRUE
  ELSE a.num * b.den < b.num * a.den

SmaLeq(a, b) == ~SmaLess(b, a)

MAAt(settings, prices, t) ==
  LET targetAmount == ParseOr(settings.targetAmount, 10000)
      \* Math.floor(parseFloat(...))
      shortPeriod == ParseOr(settings.buyThreshold, 500) \div 100
      longPeriod == ParseOr(settings.sellThreshold, 2000) \div 100
      currentPrice == prices[Len(prices)]
      prev == SubSeq(prices, 1, Len(prices) - 1)
      shortMA == calculateSMA(prices, shortPeriod)
      longMA == calculateSMA(prices, longPeriod)
      prevShortMA == calculateSMA(prev, shortPeriod)
      prevLongMA == calculateSMA(prev, longPeriod)
  IN IF Len(prices) < longPeriod + 2 THEN {NoEffect}
     ELSE IF SmaLeq(prevShortMA, prevLongMA) /\ SmaLess(longMA, shortMA)
          THEN {Placed(b) : b \in BuyBranch(settings, targetAmount, currentPrice, NoWrite, t)}
     ELSE IF SmaLeq(prevLongMA, prevShortMA) /\ SmaLess(shortMA, longMA)
          THEN {Placed(s) : s \in SellBranch(settings, VolScale, currentPrice, NoWrite, t)}
     ELSE {NoEffect}

executeMAStrategy(settings, t) ==
  IF ~HasKeys(settings) THEN {NoEffect}
  ELSE IF CoolingDown(settings, t, 60000) THEN {NoEffect}
  ELSE UNION {MAAt(settings, candles, t) : candles \in CandleSeries}

\* variant of BollingerAt: the width of the band is not looked at
BollingerAt_AnyWidth(settings, prices, t) ==
  LET targetAmount == ParseOr(settings.targetAmount, 10000)
      feeBuffer == getFeeBuffer(settings)
      currentPrice == prices[Len(prices)]
      bands == calculateBollingerBands(prices, 20)
      \* n * (middle - currentPrice)
      below == bands.S - bands.n * currentPrice
      \* bandWidthPercent = 4*std/middle < feeBuffer*2, squared:
      \*   4 * 10^8 * Q < feeBuffer^2 * S^2 * n
      tooNarrow == ProdLess(bands.Q, (4 * BpScale * BpScale) \div bands.n,
                            feeBuffer * bands.S, feeBuffer * bands.S)
      \* currentPrice <= lower:  middle - currentPrice >= 2*std
      atLower == below >= 0 /\ below * below * bands.n >= 4 * bands.Q
      \* currentPrice >= upper:  currentPrice - middle >= 2*std
      atUpper == below <= 0 /\ below * below * bands.n >= 4 * bands.Q
  IN Having(prices, Null,
       IF Len(prices) < 20 THEN {NoEffect}
       ELSE IF atLower
            THEN {Placed(b) : b \in BuyBranch(settings, targetAmount, currentPrice, NoWrite, t)}
       ELSE IF atUpper
            THEN {Placed(s) : s \in SellBranch(settings, VolScale, currentPrice, NoWrite, t)}
       ELSE {NoEffect})

\* the Bollinger decision once the cooldown has passed and the candles are in
BollingerAt(settings, prices, t) ==
  LET targetAmount == ParseOr(settings.targetAmount, 10000)
      feeBuffer == getFeeBuffer(settings)
      currentPrice == prices[Len(prices)]
      bands == calculateBollingerBands(prices, 20)
      \* n * (middle - currentPrice)
      below == bands.S - bands.n * currentPrice
      \* bandWidthPercent = 4*std/middle < feeBuffer*2, squared:
      \*   4 * 10^8 * Q < feeBuffer^2 * S^2 * n
      tooNarrow == ProdLess(bands.Q, (4 * BpScale * BpScale) \div bands.n,
                            feeBuffer * bands.S, feeBuffer * bands.S)
      \* currentPrice <= lower:  middle - currentPrice >= 2*std
      atLower == below >= 0 /\ below * below * bands.n >= 4 * bands.Q
      \* currentPrice >= upper:  currentPrice - middle >= 2*std
      atUpper == below <= 0 /\ below * below * bands.n >= 4 * bands.Q
  IN Having(prices, Null,
       IF Len(prices) < 20 THEN {NoEffect}
       ELSE IF tooNarrow THEN {NoEffect}
       ELSE IF atLower
            THEN {Placed(b) : b \in BuyBranch(settings, targetAmount, currentPrice, NoWrite, t)}
       ELSE IF atUpper
            THEN {Placed(s) : s \in SellBranch(settings, VolScale, currentPrice, NoWrite, t)}
       ELSE {NoEffect})

executeBollingerStrategy(settings, t) ==
  IF ~HasKeys(settings) THEN {NoEffect}
  ELSE IF CoolingDown(settings, t, 60000) THEN {NoEffect}
  ELSE UNION {BollingerAt(settings, candles, t) : candles \in CandleSeries}

\* ---------------------------------------------------------------- the store
SettingsFields == {"exists", "isActive", "market", "strategy", "buyThreshold",
                   "sellThreshold", "targetAmount", "feeRate", "referencePrice",
                   "lastTradeTime", "portfolioMarkets", "portfolioAllocations",
                   "upbitAccessKey", "upbitSecretKey", "stopLossPercent",
                   "takeProfitPercent"}

\* no row for the user (getBotSettings returns undefined)
NoRecord ==
  [exists |-> FALSE, isActive |-> FALSE, market |-> "KRW-BTC", strategy |-> "",
   buyThreshold |-> Null, sellThreshold |-> Null, targetAmount |-> Null,
   feeRate |-> Null, referencePrice |-> Null, lastTradeTime |-> Null,
   portfolioMarkets |-> <<>>, portfolioAllocations |-> <<>>,
   upbitAccessKey |-> FALSE, upbitSecretKey |-> FALSE,
   stopLossPercent |-> Null, takeProfitPercent |-> Null]

\* the row an insert creates before the given fields are laid over it
DefaultRecord ==
  [NoRecord EXCEPT !.exists = TRUE, !.buyThreshold = 50, !.sellThreshold = 50,
                   !.targetAmount = 10000]

Overlay(rec, partial) ==
  [f \in SettingsFields |-> IF f \in DOMAIN partial THEN partial[f] ELSE rec[f]]

\* updateBotSettings: update the user's row, or insert it
updateBotSettings(rec, partial) ==
  IF rec.exists THEN Overlay(rec, partial) ELSE Overlay(DefaultRecord, partial)

\* variant of StatePartial: lastTradeTime is left out of the update
StatePartial_ReferenceOnly(referencePrice, lastTradeTime) ==
  IF referencePrice # NoWrite THEN [referencePrice |-> referencePrice] ELSE <<>>

\* the partial update a strategy writes: the columns that are not NoWrite
StatePartial(referencePrice, lastTradeTime) ==
  IF referencePrice # NoWrite /\ lastTradeTime # NoWrite
  THEN [referencePrice |-> referencePrice, lastTradeTime |-> lastTradeTime]
  ELSE IF referencePrice # NoWrite THEN [referencePrice |-> referencePrice]
  ELSE IF lastTradeTime # NoWrite THEN [lastTradeTime |-> lastTradeTime]
  ELSE <<>>

\* variant of createTradeLog: the newest row is overwritten instead of a row
\* being inserted
createTradeLog_Overwrite(logs, entry) ==
  IF logs = <<>> THEN <<entry>> ELSE [logs EXCEPT ![Len(logs)] = entry]

\* createTradeLog: insert one row
createTradeLog(logs, entry) == Append(logs, entry)

\* the row createTradeLog is given for one order attempt
TradeLogEntry(userId, step, t) ==
  [userId |-> userId, market |-> step.market, side |-> step.side,
   price |-> step.price, volume |-> step.volume, status |-> step.status,
   feePaid |-> step.feePaid, timestamp |-> t]

\* ---------------------------------------------------------------- scheduler
\* settings.portfolioAllocations ... .filter(n => !isNaN(n) && n > 0)
portfolioAllocationsRaw(settings) ==
  SelectSeq(settings.portfolioAllocations, LAMBDA a : a > 0)

\* variant of marketsToTrade: the raw weights are used as the percentages
marketsToTrade_Unscaled(settings) ==
  LET portfolioMarkets == settings.portfolioMarkets
      raw == portfolioAllocationsRaw(settings)
  IN IF Len(portfolioMarkets) > 0 /\ Len(raw) = Len(portfolioMarkets)
     THEN [i \in 1..Len(portfolioMarkets) |->
             [market |-> portfolioMarkets[i], num |-> raw[i], den |-> 100]]
     ELSE IF Len(portfolioMarkets) > 0
     THEN [i \in 1..Len(portfolioMarkets) |->
             [market |-> portfolioMarkets[i], num |-> 1, den |-> Len(portfolioMarkets)]]
     ELSE <<[market |-> settings.market, num |-> 1, den |-> 1]>>

\* marketsToTrade: each market with its allocation 100 * num / den
marketsToTrade(settings) ==
  LET portfolioMarkets == settings.portfolioMarkets
      raw == portfolioAllocationsRaw(settings)
      rawSum == SumSeq(raw)
  IN IF Len(portfolioMarkets) > 0 /\ Len(raw) = Len(portfolioMarkets)
     THEN [i \in 1..Len(portfolioMarkets) |->
             IF rawSum > 0
             THEN [market |-> portfolioMarkets[i], num |-> raw[i], den |-> rawSum]
             ELSE [market |-> portfolioMarkets[i], num |-> 1, den |-> Len(portfolioMarkets)]]
     ELSE IF Len(portfolioMarkets) > 0
     THEN [i \in 1..Len(portfolioMarkets) |->
             [market |-> portfolioMarkets[i], num |-> 1, den |-> Len(portfolioMarkets)]]
     ELSE <<[market |-> settings.market, num |-> 1, den |-> 1]>>

\* Math.floor(baseTargetAmount * allocation / 100)
calculatedAmount(baseTargetAmount, alloc) == (baseTargetAmount * alloc.num) \div alloc.den

\* variant of BelowMinimum: no market is skipped
BelowMinimum_Never(amount) == FALSE

\* if (calculatedAmount < 5000) continue
BelowMinimum(amount) == amount < 5000

\* the per-market copy of the settings handed to the strategy
marketSettings(settings, market, amount) ==
  [settings EXCEPT !.market = market, !.targetAmount = amount]

StrategyOf(settings) == IF settings.strategy = "" THEN "percent" ELSE settings.strategy

\* switch (strategy)
Dispatch(strategy, settings, t) ==
  CASE strategy = "percent" -> executePercentStrategy(settings, t)
    [] strategy = "dca" -> executeDCAStrategy(settings, t)
    [] strategy = "grid" -> executeGridStrategy(settings, t)
    [] strategy = "rsi" -> executeRSIStrategy(settings, t)
    [] strategy = "ma" -> executeMAStrategy(settings, t)
    [] strategy = "bollinger" -> executeBollingerStrategy(settings, t)
    [] OTHER -> {NoEffect}

\* the cooldown each strategy's executor checks
Cooldown(strategy) ==
  CASE strategy \in {"percent", "grid"} -> 30000
    [] strategy = "dca" -> hourInMs
    [] OTHER -> 60000

\* an active row with both API keys stored
Keyed == [DefaultRecord EXCEPT !.upbitAccessKey = TRUE, !.upbitSecretKey = TRUE,
                               !.isActive = TRUE]

\* --------------------------------------------------------- exchange gateway
\* What an HTTP request to the exchange comes to: a 2xx response whose body
\* has the documented shape or not, no response at all, or a 4xx/5xx response
\* with the exchange's error name and message ("" when the body has none).
Response(kind, shaped, name, message) ==
  [kind |-> kind, shaped |-> shaped, name |-> name, message |-> message,
   data |-> [price |-> 1000, closes |-> <<1000, 1010>>, balance |-> 20000,
             uuid |-> "order-1"]]

Responses ==
  {Response("ok", TRUE, "", ""), Response("ok", FALSE, "", ""),
   Response("network", FALSE, "", ""),
   Response("rejected", FALSE, "", ""),
   Response("rejected", FALSE, "invalid_access_key", "invalid access key"),
   Response("rejected", FALSE, "jwt_verification", "jwt verification failed"),
   Response("rejected", FALSE, "no_authorization_ip", "ip not allowed"),
   Response("rejected", FALSE, "insufficient_funds_bid", "insufficient funds")}

\* what a gateway operation hands to its caller: escaped when an exception
\* leaves the operation, else the value of its return type
Returned(number, list, success, message) ==
  [escaped |-> FALSE, number |-> number, list |-> list, success |-> success,
   message |-> message]

Escaped == [Returned(0, <<>>, FALSE, "") EXCEPT !.escaped = TRUE]

\* jwt.sign throws when the secret is empty
Signs(secretKey) == secretKey # ""

\* variant of getCurrentPrice: the request is made outside the try block
getCurrentPrice_Unguarded(response) ==
  IF response.kind # "ok" THEN Escaped
  ELSE IF ~response.shaped THEN Returned(0, <<>>, FALSE, "")
  ELSE Returned(response.data.price, <<>>, FALSE, "")

\* try { axios.get; return res.data[0].trade_price } catch { return 0 }
getCurrentPrice(response) ==
  IF response.kind # "ok" THEN Returned(0, <<>>, FALSE, "")
  ELSE IF ~response.shaped THEN Returned(0, <<>>, FALSE, "")
  ELSE Returned(response.data.price, <<>>, FALSE, "")

\* try { axios.get; return res.data.map(...).reverse() } catch { return [] }
getCandles(response) ==
  IF response.kind # "ok" THEN Returned(0, <<>>, FALSE, "")
  ELSE IF ~response.shaped THEN Returned(0, <<>>, FALSE, "")
  ELSE Returned(0, response.data.closes, FALSE, "")

\* try { getAuthToken; axios.get; find the currency } catch { return 0 }
getAccountBalance(secretKey, response) ==
  IF ~Signs(secretKey) THEN Returned(0, <<>>, FALSE, "")
  ELSE IF response.kind # "ok" THEN Returned(0, <<>>, FALSE, "")
  ELSE IF ~response.shaped THEN Returned(0, <<>>, FALSE, "")
  ELSE Returned(response.data.balance, <<>>, FALSE, "")

\* e.response?.data?.error?.message || "주문 실패" (written "order failed")
OrderFailure(response) ==
  Returned(0, <<>>, FALSE,
           IF response.kind = "rejected" /\ response.message # ""
           THEN response.message ELSE "order failed")

\* try { getAuthToken; axios.post; return { success: true, uuid } }
\* catch { return { success: false, message } }; placeSellOrder has the same
\* structure
placeOrder(secretKey, response) ==
  IF ~Signs(secretKey) THEN OrderFailure(Response("network", FALSE, "", ""))
  ELSE IF response.kind # "ok" THEN OrderFailure(response)
  ELSE IF ~response.shaped THEN OrderFailure(Response("network", FALSE, "", ""))
  ELSE Returned(0, <<>>, TRUE, response.data.uuid)

\* verifyApiKeys: the messages are written in English here
verifyApiKeys(secretKey, response) ==
  IF Signs(secretKey) /\ response.kind = "ok"
  THEN IF response.shaped THEN Returned(response.data.balance, <<>>, TRUE, "verified")
       ELSE Returned(0, <<>>, FALSE, "no account information")
  ELSE IF Signs(secretKey) /\ response.name = "invalid_access_key"
  THEN Returned(0, <<>>, FALSE, "access key is wrong")
  ELSE IF Signs(secretKey) /\ response.name = "jwt_verification"
  THEN Returned(0, <<>>, FALSE, "secret key is wrong")
  ELSE IF Signs(secretKey) /\ response.name = "no_authorization_ip"
  THEN Returned(0, <<>>, FALSE, "ip address is not allowed")
  ELSE Returned(0, <<>>, FALSE,
                IF Signs(secretKey) /\ response.message # ""
                THEN response.message ELSE "connection failed")

GatewayOperations ==
  {"getCurrentPrice", "getCandles", "getAccountBalance", "placeBuyOrder",
   "placeSellOrder", "verifyApiKeys"}

\* the operation applied to the secret key it is given and to what its
\* request comes to
Gateway(operation, secretKey, response) ==
  CASE operation = "getCurrentPrice" -> getCurrentPrice(response)
    [] operation = "getCandles" -> getCandles(response)
    [] operation = "getAccountBalance" -> getAccountBalance(secretKey, response)
    [] operation = "placeBuyOrder" -> placeOrder(secretKey, response)
    [] operation = "placeSellOrder" -> placeOrder(secretKey, response)
    [] operation = "verifyApiKeys" -> verifyApiKeys(secretKey, response)

\* no gateway call recorded yet
NoGatewayCall ==
  [served |-> FALSE, operation |-> "", secretKey |-> "",
   response |-> Response("network", FALSE, "", ""),
   returned |-> Returned(0, <<>>, FALSE, "")]

\* ------------------------------------------------------------------- state
VARIABLES
  settings,    \* bot_settings: user -> row (NoRecord when there is none)
  tradeLogs,   \* trade_logs, in insertion order
  now,         \* Date.now()
  isRunning,   \* UpbitService.isRunning
  timers,      \* setInterval timers installed
  ticks,       \* the timer callbacks in flight: slot -> tick
  attempts,    \* history: calls of placeBuyOrder / placeSellOrder so far
  lastOrder,   \* history: the latest such call and what its caller had read
  lastOk,      \* history: user -> time of its latest accepted scheduler order
  lastFail,    \* history: user -> time of its latest rejected scheduler order
  fresh,       \* history: users activated or re-configured since their last fetch
  lastTick,    \* history: the latest callback that ended, and what the latest
               \* evaluation read
  calls,       \* history: requests the API has served so far
  reports,     \* history: the latest backtest and the latest statistics served
  lastUpdate,  \* history: the latest settings-update request and its answer
  restarts,    \* history: restarts of the process so far and the time of the latest
  gateway,     \* history: the latest Exchange Gateway call and what it returned
  table,       \* bot_settings row by row, and the updateBotSettings calls in flight
  indicator    \* history: the latest calculateRSI call and what it returned

vars == <<settings, tradeLogs, now, isRunning, timers, ticks, attempts, lastOrder,
          lastOk, lastFail, fresh, lastTick, calls, reports, lastUpdate,
          restarts, gateway, table, indicator>>

\* --------------------------------------------------------------- backtest
\* runBacktest works on the closes of hourly candles, oldest first; a candle's
\* timestamp is its place in the series. params holds buyThreshold and
\* sellThreshold (hundredths of a percent) and targetAmount, Null when the
\* caller leaves one out.
BacktestParam(value, default) == IF value = Null \/ value = 0 THEN default ELSE value

\* switch (strategy) of runBacktest: the signal at the last close of prices
BacktestSignal(strategy, prices, params) ==
  LET currentPrice == prices[Len(prices)]
      buyThreshold == BacktestParam(params.buyThreshold, 50)
      sellThreshold == BacktestParam(params.sellThreshold, 50)
      prev == SubSeq(prices, 1, Len(prices) - 1)
  IN CASE strategy = "percent" ->
            LET prevPrice == prices[Len(prices) - 1]
                \* change = (currentPrice - prevPrice) / prevPrice * 100
                diff == currentPrice - prevPrice
            IN IF diff * BpScale <= -(buyThreshold * prevPrice) THEN "buy"
               ELSE IF diff * BpScale >= sellThreshold * prevPrice THEN "sell"
               ELSE "hold"
       [] strategy = "rsi" ->
            LET rsi == calculateRSI(prices, 14)
            IN IF rsi.num < 30 * rsi.den THEN "buy"
               ELSE IF rsi.num > 70 * rsi.den THEN "sell"
               ELSE "hold"
       [] strategy = "ma" ->
            LET shortMA == calculateSMA(prices, 5)
                longMA == calculateSMA(prices, 20)
                prevShortMA == calculateSMA(prev, 5)
                prevLongMA == calculateSMA(prev, 20)
            IN IF SmaLeq(prevShortMA, prevLongMA) /\ SmaLess(longMA, shortMA) THEN "buy"
               ELSE IF SmaLeq(prevLongMA, prevShortMA) /\ SmaLess(shortMA, longMA)
                    THEN "sell"
               ELSE "hold"
       [] strategy = "bollinger" ->
            LET bb == calculateBollingerBands(prices, 20)
                below == bb.S - bb.n * currentPrice
                outside == below * below * bb.n >= 4 * bb.Q
            IN IF below >= 0 /\ outside THEN "buy"
               ELSE IF below <= 0 /\ outside THEN "sell"
               ELSE "hold"
       [] OTHER -> "hold"

\* The row the live path would evaluate for a backtest request at the last
\* close of prices: the request's thresholds, the default amount and fee rate,
\* keys present, no trade yet, and the previous close as referencePrice.
LiveSettings(strategy, prices, params) ==
  [Keyed EXCEPT !.strategy = strategy,
                !.buyThreshold = params.buyThreshold,
                !.sellThreshold = params.sellThreshold,
                !.referencePrice = prices[Len(prices) - 1] * RefScale]

\* The signal of the live evaluator on that row when the exchange reports
\* prices as the candles and their last close as the price: the side of the
\* order it goes for when the balance allows one
LiveSignal(strategy, prices, params) ==
  LET row == LiveSettings(strategy, prices, params)
      currentPrice == prices[Len(prices)]
      outcomes ==
        CASE strategy = "percent" -> PercentAt(row, currentPrice, StartTime)
          [] strategy = "grid" -> GridAt(row, currentPrice, StartTime)
          [] strategy = "dca" -> DCAAt(row, prices, StartTime)
          [] strategy = "rsi" -> RSIAt(row, prices, StartTime)
          [] strategy = "ma" -> MAAt(row, prices, StartTime)
          [] strategy = "bollinger" -> BollingerAt(row, prices, StartTime)
      goesFor(side) ==
        \E e \in outcomes : \E k \in 1..Len(e.steps) : e.steps[k].side = side
  IN IF goesFor("bid") THEN "buy" ELSE IF goesFor("ask") THEN "sell" ELSE "hold"

\* variant of InitialLedger: the balance an earlier run ended with is carried
\* into the next run
InitialLedger_Carried(params) ==
  [open |-> FALSE, stake |-> 0, entryPrice |-> 0,
   balance |-> BacktestParam(params.targetAmount, 100000)
                 + reports.backtest.result.totalProfit,
   peak |-> BacktestParam(params.targetAmount, 100000)
              + reports.backtest.result.totalProfit,
   maxDrawdown |-> 0, winTrades |-> 0, lossTrades |-> 0, trades |-> <<>>]

\* let position = 0, entryPrice = 0, balance = params.targetAmount || 100000, ...
\* An open position is kept as the balance staked and the entry price
\* (position = stake / entryPrice).
InitialLedger(params) ==
  [open |-> FALSE, stake |-> 0, entryPrice |-> 0,
   balance |-> BacktestParam(params.targetAmount, 100000),
   peak |-> BacktestParam(params.targetAmount, 100000),
   maxDrawdown |-> 0, winTrades |-> 0, lossTrades |-> 0, trades |-> <<>>]

\* position * price, in whole KRW
PositionValue(ledger, price) == (ledger.stake * price) \div ledger.entryPrice

\* variant of Close: a close without profit is counted among the wins
Close_ZeroWins(ledger, price, at) ==
  LET exitValue == PositionValue(ledger, price)
      profit == exitValue - ledger.stake
  IN [ledger EXCEPT !.open = FALSE, !.stake = 0, !.entryPrice = 0,
                    !.balance = exitValue,
                    !.winTrades = IF profit >= 0 THEN @ + 1 ELSE @,
                    !.lossTrades = IF profit >= 0 THEN @ ELSE @ + 1,
                    !.trades = Append(@, [timestamp |-> at, side |-> "ask",
                                          price |-> price, profit |-> profit])]

\* the simulated sell of the open position at price, stamped at
Close(ledger, price, at) ==
  LET exitValue == PositionValue(ledger, price)
      profit == exitValue - ledger.stake
  IN [ledger EXCEPT !.open = FALSE, !.stake = 0, !.entryPrice = 0,
                    !.balance = exitValue,
                    !.winTrades = IF profit > 0 THEN @ + 1 ELSE @,
                    !.lossTrades = IF profit > 0 THEN @ ELSE @ + 1,
                    !.trades = Append(@, [timestamp |-> at, side |-> "ask",
                                          price |-> price, profit |-> profit])]

\* variant of Trade: a buy signal buys whether or not a position is open
Trade_Pyramiding(ledger, signal, price, at) ==
  IF signal = "buy"
  THEN [ledger EXCEPT !.open = TRUE, !.stake = ledger.balance, !.entryPrice = price,
                      !.trades = Append(@, [timestamp |-> at, side |-> "bid",
                                            price |-> price, profit |-> 0])]
  ELSE IF signal = "sell" /\ ledger.open
  THEN Close(ledger, price, at)
  ELSE ledger

\* "Execute simulated trades" for one candle; a bid carries no profit (0 here)
Trade(ledger, signal, price, at) ==
  IF signal = "buy" /\ ~ledger.open
  THEN [ledger EXCEPT !.open = TRUE, !.stake = ledger.balance, !.entryPrice = price,
                      !.trades = Append(@, [timestamp |-> at, side |-> "bid",
                                            price |-> price, profit |-> 0])]
  ELSE IF signal = "sell" /\ ledger.open
  THEN Close(ledger, price, at)
  ELSE ledger

\* variant of TrackDrawdown: maxDrawdown is the drawdown of the latest candle
TrackDrawdown_Latest(ledger, price) ==
  LET currentValue == IF ledger.open THEN PositionValue(ledger, price) ELSE ledger.balance
      peak == Max(ledger.peak, currentValue)
      drawdown == ((peak - currentValue) * BpScale) \div peak
  IN [ledger EXCEPT !.peak = peak, !.maxDrawdown = drawdown]

\* "Track drawdown" for one candle; maxDrawdown is kept in hundredths of a
\* percent
TrackDrawdown(ledger, price) ==
  LET currentValue == IF ledger.open THEN PositionValue(ledger, price) ELSE ledger.balance
      peak == Max(ledger.peak, currentValue)
      drawdown == ((peak - currentValue) * BpScale) \div peak
  IN [ledger EXCEPT !.peak = peak, !.maxDrawdown = Max(@, drawdown)]

\* for (let i = 20; i < candles.length; i++): the candles from the n-th on
RECURSIVE BacktestLoop(_, _, _, _, _)
BacktestLoop(strategy, closes, params, n, ledger) ==
  IF n > Len(closes) THEN ledger
  ELSE LET signal == BacktestSignal(strategy, SubSeq(closes, 1, n), params)
           traded == Trade(ledger, signal, closes[n], n)
       IN BacktestLoop(strategy, closes, params, n + 1, TrackDrawdown(traded, closes[n]))

\* the BacktestResult returned for a final ledger
BacktestResult(ledger, params) ==
  LET totalTrades == Len(ledger.trades)
  IN [totalTrades |-> totalTrades,
      winTrades |-> ledger.winTrades,
      lossTrades |-> ledger.lossTrades,
      winRate |-> IF totalTrades > 0
                  THEN (ledger.winTrades * 100) \div (ledger.winTrades + ledger.lossTrades)
                  ELSE 0,
      totalProfit |-> ledger.balance - BacktestParam(params.targetAmount, 100000),
      maxDrawdown |-> ledger.maxDrawdown,
      trades |-> LastN(ledger.trades, 20)]

EmptyResult ==
  [totalTrades |-> 0, winTrades |-> 0, lossTrades |-> 0, winRate |-> 0,
   totalProfit |-> 0, maxDrawdown |-> 0, trades |-> <<>>]

\* runBacktest on the answer of the candle request: a failed request gives the
\* empty result
runBacktest(strategy, answer, params) ==
  IF answer.failed THEN EmptyResult
  ELSE LET looped == BacktestLoop(strategy, answer.closes, params, 21,
                                  InitialLedger(params))
           final == IF looped.open
                    THEN Close(looped, answer.closes[Len(answer.closes)],
                               Len(answer.closes))
                    ELSE looped
       IN BacktestResult(final, params)

\* -------------------------------------------------------------- statistics
dayInMs == 86400000

\* storage.getTradeLogs(userId): the user's latest 50 entries, oldest first
\* once getStatistics has sorted them by timestamp
getTradeLogs(logs, userId) == LastN(SelectSeq(logs, LAMBDA l : l.userId = userId), 50)

\* dateKey, weekKey and monthKey of a timestamp; every instant the model
\* reaches lies in January 1970
dateKey(timestamp) == timestamp \div dayInMs
weekKey(timestamp) == timestamp \div (7 * dayInMs)
monthKey(timestamp) == "1970-01"

\* the Map get-or-create followed by profit += and trades++
Bump(entries, key, profit) ==
  IF \E k \in 1..Len(entries) : entries[k].key = key
  THEN [k \in 1..Len(entries) |->
          IF entries[k].key = key
          THEN [entries[k] EXCEPT !.profit = @ + profit, !.trades = @ + 1]
          ELSE entries[k]]
  ELSE Append(entries, [key |-> key, profit |-> profit, trades |-> 1])

NoTally ==
  [buyQueue |-> <<>>, totalProfit |-> 0, totalLoss |-> 0, wins |-> 0, losses |-> 0,
   bestTrade |-> 0, worstTrade |-> 0, daily |-> <<>>, weekly |-> <<>>,
   monthly |-> <<>>]

\* one entry of the loop over the successful logs; profits are in 1/VolScale KRW
Tally(tally, log) ==
  IF log.side = "bid"
  THEN [tally EXCEPT !.buyQueue = Append(@, [price |-> log.price, volume |-> log.volume])]
  ELSE IF log.side = "ask" /\ Len(tally.buyQueue) > 0
  THEN LET buy == Head(tally.buyQueue)
           profit == (log.price - buy.price) * log.volume
       IN [tally EXCEPT
             !.buyQueue = Tail(@),
             !.totalProfit = IF profit > 0 THEN @ + profit ELSE @,
             !.wins = IF profit > 0 THEN @ + 1 ELSE @,
             !.bestTrade = IF profit > 0 THEN Max(@, profit) ELSE @,
             !.totalLoss = IF profit > 0 THEN @ ELSE @ + Abs(profit),
             !.losses = IF profit > 0 THEN @ ELSE @ + 1,
             !.worstTrade = IF profit > 0 THEN @ ELSE Min(@, profit),
             !.daily = Bump(@, dateKey(log.timestamp), profit),
             !.weekly = Bump(@, weekKey(log.timestamp), profit),
             !.monthly = Bump(@, monthKey(log.timestamp), profit)]
  ELSE tally

RECURSIVE TallyAll(_, _)
TallyAll(logs, tally) ==
  IF logs = <<>> THEN tally ELSE TallyAll(Tail(logs), Tally(tally, Head(logs)))

\* getStatistics over the trade log; winRate in percent, profitFactor in
\* hundredths, both rounded down
getStatistics(logs, userId) ==
  LET successLogs == SelectSeq(getTradeLogs(logs, userId), LAMBDA l : l.status = "success")
      tally == TallyAll(successLogs, NoTally)
  IN [daily |-> LastN(tally.daily, 30),
      weekly |-> LastN(tally.weekly, 12),
      monthly |-> LastN(tally.monthly, 12),
      winRate |-> IF tally.wins + tally.losses > 0
                  THEN (tally.wins * 100) \div (tally.wins + tally.losses) ELSE 0,
      avgProfit |-> IF tally.wins > 0 THEN tally.totalProfit \div tally.wins ELSE 0,
      avgLoss |-> IF tally.losses > 0 THEN tally.totalLoss \div tally.losses ELSE 0,
      profitFactor |-> IF tally.totalLoss > 0
                       THEN (tally.totalProfit * 100) \div tally.totalLoss
                       ELSE IF tally.totalProfit > 0 THEN 99900 ELSE 0,
      totalProfit |-> tally.totalProfit - tally.totalLoss,
      bestTrade |-> tally.bestTrade,
      worstTrade |-> tally.worstTrade]

Slots == 1..MaxInFlight

IdleTick ==
  [busy |-> FALSE, snap |-> [u \in Users |-> NoRecord], users |-> <<>>,
   ui |-> 0, mi |-> 0, first |-> {}, visited |-> {}]

NoOrder ==
  [src |-> "none", userId |-> "", strategy |-> "", given |-> NoRecord,
   side |-> "", market |-> "", price |-> 0, amount |-> 0, volume |-> 0,
   ok |-> FALSE, balanceRead |-> 0, time |-> 0, prevOk |-> Null,
   prevFail |-> Null, firstCycle |-> FALSE]

\* the parameters of a backtest request that names none
NoParams == [buyThreshold |-> Null, sellThreshold |-> Null, targetAmount |-> Null]

\* where the program stood when a report was served: the clock and the length
\* of the trade log
Seen == [now |-> now, logs |-> Len(tradeLogs)]

\* nothing served yet
NoReports ==
  [backtest |-> [ran |-> FALSE, strategy |-> "", params |-> NoParams,
                 answer |-> [failed |-> TRUE, closes |-> <<>>],
                 result |-> EmptyResult, at |-> [now |-> 0, logs |-> 0],
                 again |-> FALSE],
   statistics |-> [ran |-> FALSE, userId |-> "", result |-> getStatistics(<<>>, "")]]

\* no settings-update request served yet
NoUpdate == [served |-> FALSE, userId |-> "", updates |-> <<>>, status |-> 0]

\* the process has not been restarted
NoRestart == [count |-> 0, at |-> Null]

\* no calculateRSI call recorded yet
NoIndicator == [asked |-> FALSE, prices |-> <<>>, period |-> 0,
                rsi |-> [num |-> 0, den |-> 1]]

\* no row in bot_settings and no updateBotSettings call in flight
Writers == 1..MaxWriters

IdleWriter == [pc |-> "idle", userId |-> "", partial |-> <<>>, existing |-> 0]

EmptyTable == [rows |-> <<>>, writers |-> [w \in Writers |-> IdleWriter]]

NoTick == [users |-> <<>>, visited |-> {}, threw |-> FALSE, read |-> NoRead]

Range(f) == {f[i] : i \in DOMAIN f}

\* ----------------------------------------------------------------- Init
\* a lastTradeTime whose cooldown ends between the first and the second firing
Recent(strategy) == StartTime + TickMs + (TickMs \div 2) - Cooldown(strategy)

Portfolio(row, allocations) ==
  [row EXCEPT !.portfolioMarkets = <<"KRW-BTC", "KRW-ETH">>,
              !.portfolioAllocations = allocations]

\* rows the database may hold when the process boots
Profiles ==
  {[Keyed EXCEPT !.strategy = s, !.referencePrice = r, !.lastTradeTime = l] :
      s \in {"", "grid"}, r \in {Null, 1000 * RefScale},
      l \in {Null, Recent("percent")}}
  \cup {[Keyed EXCEPT !.strategy = s, !.lastTradeTime = IF c THEN Recent(s) ELSE Null] :
      s \in {"dca", "bollinger"}, c \in BOOLEAN}
  \cup {[Keyed EXCEPT !.strategy = "rsi", !.buyThreshold = 3000, !.sellThreshold = 7000],
        [Keyed EXCEPT !.strategy = "ma", !.buyThreshold = 500, !.sellThreshold = 2000],
        Portfolio([Keyed EXCEPT !.strategy = "dca"], <<1, 1>>),
        Portfolio([Keyed EXCEPT !.referencePrice = 1000 * RefScale], <<60, 40>>),
        Portfolio([Keyed EXCEPT !.referencePrice = 1000 * RefScale], <<2, 3>>),
        [Keyed EXCEPT !.referencePrice = 1100 * RefScale],
        Portfolio([Keyed EXCEPT !.strategy = "dca"], <<0, 5>>),
        [Keyed EXCEPT !.buyThreshold = 10, !.referencePrice = 998 * RefScale],
        [Keyed EXCEPT !.isActive = FALSE, !.referencePrice = 1000 * RefScale],
        [Keyed EXCEPT !.upbitSecretKey = FALSE]}

Init ==
  /\ settings \in [Users -> Profiles \cup {NoRecord}]
  /\ \/ settings["u2"] = [Keyed EXCEPT !.referencePrice = 1000 * RefScale]
     \/ settings["u2"] = NoRecord /\ settings["u1"].strategy = "grid"
  /\ tradeLogs = <<>>
  /\ now = StartTime
  /\ isRunning = FALSE
  /\ timers = 0
  /\ ticks = [s \in Slots |-> IdleTick]
  /\ attempts = 0
  /\ lastOrder = NoOrder
  /\ lastOk = [u \in Users |-> Null]
  /\ lastFail = [u \in Users |-> Null]
  /\ fresh = {}
  /\ lastTick = NoTick
  /\ calls = 0
  /\ reports = NoReports
  /\ lastUpdate = NoUpdate
  /\ restarts = NoRestart
  /\ gateway = NoGatewayCall
  /\ table = EmptyTable
  /\ indicator = NoIndicator

\* ---------------------------------------------------------------- actions
\* variant of StartLoop: the timer is installed whether or not one is running
StartLoop_Unguarded ==
  /\ isRunning' = TRUE
  /\ timers' = timers + 1
  /\ UNCHANGED <<settings, tradeLogs, now, ticks, attempts, lastOrder, lastOk,
                 lastFail, fresh, lastTick, calls,
                 reports, lastUpdate,
                 restarts, gateway, table, indicator>>

\* startLoop: install the timer once
StartLoop ==
  /\ ~isRunning
  /\ isRunning' = TRUE
  /\ timers' = timers + 1
  /\ UNCHANGED <<settings, tradeLogs, now, ticks, attempts, lastOrder, lastOk,
                 lastFail, fresh, lastTick, calls,
                 reports, lastUpdate,
                 restarts, gateway, table, indicator>>

\* getAllActiveSettings
ActiveUsers == SelectSeq(UserOrder, LAMBDA u : settings[u].exists /\ settings[u].isActive)

\* variant of TimerFire: a firing waits until no callback is in flight
TimerFire_Waiting ==
  /\ isRunning
  /\ now < StartTime + MaxTicks * TickMs
  /\ \A r \in Slots : ~ticks[r].busy
  /\ \E s \in Slots :
       /\ ~ticks[s].busy
       /\ \A r \in Slots : r < s => ticks[r].busy
       /\ IF ActiveUsers = <<>>
          THEN /\ ticks' = ticks
               /\ lastTick' = NoTick
          ELSE /\ ticks' = [ticks EXCEPT ![s] =
                    [busy |-> TRUE, snap |-> settings, users |-> ActiveUsers,
                     ui |-> 1, mi |-> 1, first |-> fresh \cap Range(ActiveUsers),
                     visited |-> {}]]
               /\ lastTick' = lastTick
  /\ now' = now + TickMs
  /\ fresh' = fresh \ Range(ActiveUsers)
  /\ UNCHANGED <<settings, tradeLogs, isRunning, timers, attempts, lastOrder,
                 lastOk, lastFail, calls,
                 reports, lastUpdate,
                 restarts, gateway, table, indicator>>

\* The timer fires TickMs after the previous firing and the callback fetches
\* the active rows; callbacks still in flight keep running.
TimerFire ==
  /\ isRunning
  /\ now < StartTime + MaxTicks * TickMs
  /\ \E s \in Slots :
       /\ ~ticks[s].busy
       /\ \A r \in Slots : r < s => ticks[r].busy
       /\ IF ActiveUsers = <<>>
          THEN /\ ticks' = ticks
               /\ lastTick' = NoTick
          ELSE /\ ticks' = [ticks EXCEPT ![s] =
                    [busy |-> TRUE, snap |-> settings, users |-> ActiveUsers,
                     ui |-> 1, mi |-> 1, first |-> fresh \cap Range(ActiveUsers),
                     visited |-> {}]]
               /\ lastTick' = lastTick
  /\ now' = now + TickMs
  /\ fresh' = fresh \ Range(ActiveUsers)
  /\ UNCHANGED <<settings, tradeLogs, isRunning, timers, attempts, lastOrder,
                 lastOk, lastFail, calls,
                 reports, lastUpdate,
                 restarts, gateway, table, indicator>>

\* the position after the current user (continue / end of the inner loop)
NextUser(tk) ==
  IF tk.ui < Len(tk.users)
  THEN [tk EXCEPT !.ui = @ + 1, !.mi = 1, !.visited = @ \cup {tk.users[tk.ui]}]
  ELSE IdleTick

\* the position after the current market of the current user
NextMarket(tk) ==
  IF tk.mi < Len(marketsToTrade(tk.snap[tk.users[tk.ui]]))
  THEN [tk EXCEPT !.mi = @ + 1]
  ELSE NextUser(tk)

\* what is recorded when callback tk moves on to position nx
Ended(tk, nx, threw) ==
  IF nx.busy THEN lastTick
  ELSE [users |-> tk.users,
        visited |-> tk.visited \cup {tk.users[tk.ui]},
        threw |-> threw,
        read |-> lastTick.read]

OrderRecord(src, userId, strategy, given, step, t, first) ==
  [src |-> src, userId |-> userId, strategy |-> strategy, given |-> given,
   side |-> step.side, market |-> step.market, price |-> step.price,
   amount |-> step.amount, volume |-> step.volume, ok |-> step.ok,
   balanceRead |-> step.balanceRead, time |-> t, prevOk |-> lastOk[userId],
   prevFail |-> lastFail[userId], firstCycle |-> first]

\* variant of RunSteps: a successful order writes back the whole row the
\* executor was handed, with the new referencePrice and lastTradeTime
RECURSIVE RunSteps_WholeRow(_, _, _)
RunSteps_WholeRow(steps, acc, ctx) ==
  IF steps = <<>> THEN acc
  ELSE LET step == Head(steps)
       IN RunSteps_WholeRow(Tail(steps),
            [row |-> IF step.ok
                     THEN Overlay(ctx.given,
                                  StatePartial(step.referencePrice, step.lastTradeTime))
                     ELSE acc.row,
             logs |-> createTradeLog(acc.logs, TradeLogEntry(ctx.userId, step, ctx.t)),
             attempts |-> acc.attempts + 1,
             lastOrder |-> [OrderRecord("bot", ctx.userId, ctx.strategy, ctx.given,
                                        step, ctx.t, ctx.first)
                             EXCEPT !.prevOk = acc.lastOk, !.prevFail = acc.lastFail],
             lastOk |-> IF step.ok THEN ctx.t ELSE acc.lastOk,
             lastFail |-> IF step.ok THEN acc.lastFail ELSE ctx.t],
            ctx)

\* the store and the history after the steps of one evaluation, in order
RECURSIVE RunSteps(_, _, _)
RunSteps(steps, acc, ctx) ==
  IF steps = <<>> THEN acc
  ELSE LET step == Head(steps)
       IN RunSteps(Tail(steps),
            [row |-> updateBotSettings(acc.row,
                        StatePartial(step.referencePrice, step.lastTradeTime)),
             logs |-> createTradeLog(acc.logs, TradeLogEntry(ctx.userId, step, ctx.t)),
             attempts |-> acc.attempts + 1,
             lastOrder |-> [OrderRecord("bot", ctx.userId, ctx.strategy, ctx.given,
                                        step, ctx.t, ctx.first)
                             EXCEPT !.prevOk = acc.lastOk, !.prevFail = acc.lastFail],
             lastOk |-> IF step.ok THEN ctx.t ELSE acc.lastOk,
             lastFail |-> IF step.ok THEN acc.lastFail ELSE ctx.t],
            ctx)

\* variant of TickStep: the row is read from the store at each evaluation
TickStep_LiveRow(s) ==
  /\ ticks[s].busy
  /\ LET tk == ticks[s]
         userId == tk.users[tk.ui]
         fetched == settings[userId]
         strategy == StrategyOf(fetched)
         baseTargetAmount == ParseOr(fetched.targetAmount, 10000)
         alloc == marketsToTrade(fetched)[tk.mi]
         amount == calculatedAmount(baseTargetAmount, alloc)
         given == marketSettings(fetched, alloc.market, amount)
     IN IF ~HasKeys(fetched) \/ baseTargetAmount <= 0
        THEN /\ ticks' = [ticks EXCEPT ![s] = NextUser(tk)]
             /\ lastTick' = [Ended(tk, NextUser(tk), FALSE) EXCEPT !.read = NoRead]
             /\ UNCHANGED <<settings, tradeLogs, attempts, lastOrder, lastOk, lastFail>>
        ELSE IF BelowMinimum(amount)
        THEN /\ ticks' = [ticks EXCEPT ![s] = NextMarket(tk)]
             /\ lastTick' = [Ended(tk, NextMarket(tk), FALSE) EXCEPT !.read = NoRead]
             /\ UNCHANGED <<settings, tradeLogs, attempts, lastOrder, lastOk, lastFail>>
        ELSE \E e \in Dispatch(strategy, given, now) :
               LET row0 == IF e.init = NoWrite THEN settings[userId]
                           ELSE updateBotSettings(settings[userId],
                                                  StatePartial(e.init, NoWrite))
                   out == RunSteps(e.steps,
                            [row |-> row0, logs |-> tradeLogs, attempts |-> attempts,
                             lastOrder |-> lastOrder, lastOk |-> lastOk[userId],
                             lastFail |-> lastFail[userId]],
                            [userId |-> userId, strategy |-> strategy, given |-> given,
                             t |-> now, first |-> userId \in tk.first])
                   nx == IF e.threw THEN IdleTick ELSE NextMarket(tk)
               IN /\ attempts + Len(e.steps) <= MaxAttempts
                  /\ settings' = [settings EXCEPT ![userId] = out.row]
                  /\ tradeLogs' = out.logs
                  /\ attempts' = out.attempts
                  /\ lastOrder' = out.lastOrder
                  /\ lastOk' = [lastOk EXCEPT ![userId] = out.lastOk]
                  /\ lastFail' = [lastFail EXCEPT ![userId] = out.lastFail]
                  /\ ticks' = [ticks EXCEPT ![s] = nx]
                  /\ lastTick' = [Ended(tk, nx, e.threw) EXCEPT !.read = e.read]
  /\ UNCHANGED <<now, isRunning, timers, fresh, calls,
                 reports, lastUpdate,
                 restarts, gateway, table, indicator>>

\* One iteration of the loops of the timer callback in slot s: the current
\* user is skipped (no keys, invalid targetAmount), or the current market is
\* skipped (amount below the minimum), or its strategy is evaluated against
\* the row fetched when the callback started. An error raised by the
\* evaluation leaves both loops and ends the callback.
TickStep(s) ==
  /\ ticks[s].busy
  /\ LET tk == ticks[s]
         userId == tk.users[tk.ui]
         fetched == tk.snap[userId]
         strategy == StrategyOf(fetched)
         baseTargetAmount == ParseOr(fetched.targetAmount, 10000)
         alloc == marketsToTrade(fetched)[tk.mi]
         amount == calculatedAmount(baseTargetAmount, alloc)
         given == marketSettings(fetched, alloc.market, amount)
     IN IF ~HasKeys(fetched) \/ baseTargetAmount <= 0
        THEN /\ ticks' = [ticks EXCEPT ![s] = NextUser(tk)]
             /\ lastTick' = [Ended(tk, NextUser(tk), FALSE) EXCEPT !.read = NoRead]
             /\ UNCHANGED <<settings, tradeLogs, attempts, lastOrder, lastOk, lastFail>>
        ELSE IF BelowMinimum(amount)
        THEN /\ ticks' = [ticks EXCEPT ![s] = NextMarket(tk)]
             /\ lastTick' = [Ended(tk, NextMarket(tk), FALSE) EXCEPT !.read = NoRead]
             /\ UNCHANGED <<settings, tradeLogs, attempts, lastOrder, lastOk, lastFail>>
        ELSE \E e \in Dispatch(strategy, given, now) :
               LET row0 == IF e.init = NoWrite THEN settings[userId]
                           ELSE updateBotSettings(settings[userId],
                                                  StatePartial(e.init, NoWrite))
                   out == RunSteps(e.steps,
                            [row |-> row0, logs |-> tradeLogs, attempts |-> attempts,
                             lastOrder |-> lastOrder, lastOk |-> lastOk[userId],
                             lastFail |-> lastFail[userId]],
                            [userId |-> userId, strategy |-> strategy, given |-> given,
                             t |-> now, first |-> userId \in tk.first])
                   nx == IF e.threw THEN IdleTick ELSE NextMarket(tk)
               IN /\ attempts + Len(e.steps) <= MaxAttempts
                  /\ settings' = [settings EXCEPT ![userId] = out.row]
                  /\ tradeLogs' = out.logs
                  /\ attempts' = out.attempts
                  /\ lastOrder' = out.lastOrder
                  /\ lastOk' = [lastOk EXCEPT ![userId] = out.lastOk]
                  /\ lastFail' = [lastFail EXCEPT ![userId] = out.lastFail]
                  /\ ticks' = [ticks EXCEPT ![s] = nx]
                  /\ lastTick' = [Ended(tk, nx, e.threw) EXCEPT !.read = e.read]
  /\ UNCHANGED <<now, isRunning, timers, fresh, calls,
                 reports, lastUpdate,
                 restarts, gateway, table, indicator>>

\* the request bodies the settings-update call is tried with
Bodies ==
  {[isActive |-> TRUE], [market |-> "KRW-ETH"], [strategy |-> "grid"],
   [strategy |-> "rsi"], [buyThreshold |-> 10100],
   [referencePrice |-> 500 * RefScale]}

validStrategies == {"percent", "grid", "dca"}

\* whether the handler answers 400
Rejected(updates) ==
  \/ "strategy" \in DOMAIN updates /\ updates.strategy # ""
       /\ updates.strategy \notin validStrategies
  \/ "buyThreshold" \in DOMAIN updates
       /\ (updates.buyThreshold < 0 \/ updates.buyThreshold > 100 * 100)
  \/ "sellThreshold" \in DOMAIN updates
       /\ (updates.sellThreshold < 0 \/ updates.sellThreshold > 100 * 100)
  \/ "targetAmount" \in DOMAIN updates /\ updates.targetAmount < 0

\* whether an accepted body activates the bot or re-configures what it trades
Reconfigures(row, updates) ==
  \/ "isActive" \in DOMAIN updates /\ updates.isActive /\ ~row.isActive
  \/ "market" \in DOMAIN updates /\ updates.market # row.market
  \/ "strategy" \in DOMAIN updates /\ updates.strategy # StrategyOf(row)

\* POST settings: validate, then updateBotSettings(userId, updates)
UpdateSettings(userId, updates) ==
  /\ calls < MaxCalls
  /\ calls' = calls + 1
  /\ lastUpdate' = [served |-> TRUE, userId |-> userId, updates |-> updates,
                     status |-> IF Rejected(updates) THEN 400 ELSE 200]
  /\ IF Rejected(updates)
     THEN UNCHANGED <<settings, fresh>>
     ELSE /\ settings' = [settings EXCEPT ![userId] = updateBotSettings(@, updates)]
          /\ fresh' = IF Reconfigures(settings[userId], updates)
                       THEN fresh \cup {userId} ELSE fresh
  /\ UNCHANGED <<tradeLogs, now, isRunning, timers, ticks, attempts, lastOrder,
                 lastOk, lastFail, lastTick,
                 reports, restarts, gateway, table, indicator>>

ManualStep(side, market, price, amount, volume, ok, read) ==
  [side |-> side, market |-> market, price |-> price, amount |-> amount,
   volume |-> volume, ok |-> ok, balanceRead |-> read,
   status |-> IF ok THEN "success" ELSE "failed", feePaid |-> Null]

\* the amounts and the market the manual calls are tried with
Amounts == {0, 4999, 5000}
ManualMarkets == {"KRW-ETH"}

\* POST trade/buy; the logged volume amount / currentPrice is Infinity (Null
\* here) when the price request failed
ManualBuy(userId, market, amount) ==
  /\ calls < MaxCalls
  /\ attempts < MaxAttempts
  /\ calls' = calls + 1
  /\ IF ~HasKeys(settings[userId]) \/ amount = 0 \/ amount < 5000
     THEN UNCHANGED <<tradeLogs, attempts, lastOrder>>
     ELSE \E currentPrice \in PricesOf(market), ok \in BOOLEAN :
            LET step == ManualStep("bid", market, currentPrice, amount,
                                   IF currentPrice = 0 THEN Null
                                   ELSE (amount * VolScale) \div currentPrice,
                                   ok, Null)
            IN /\ tradeLogs' = createTradeLog(tradeLogs, TradeLogEntry(userId, step, now))
               /\ attempts' = attempts + 1
               /\ lastOrder' = OrderRecord("manual", userId, "", settings[userId],
                                            step, now, FALSE)
  /\ UNCHANGED <<settings, now, isRunning, timers, ticks, lastOk, lastFail, fresh,
                 lastTick,
                 reports, lastUpdate,
                 restarts, gateway, table, indicator>>

\* POST trade/sell (sell all)
ManualSell(userId, market) ==
  /\ calls < MaxCalls
  /\ attempts < MaxAttempts
  /\ calls' = calls + 1
  /\ IF ~HasKeys(settings[userId])
     THEN UNCHANGED <<tradeLogs, attempts, lastOrder>>
     ELSE \E coinBalance \in CoinBalances, currentPrice \in PricesOf(market),
             ok \in BOOLEAN :
            IF coinBalance * currentPrice < 5000
            THEN UNCHANGED <<tradeLogs, attempts, lastOrder>>
            ELSE LET step == ManualStep("ask", market, currentPrice, 0,
                                        coinBalance * VolScale, ok, coinBalance)
                 IN /\ tradeLogs' = createTradeLog(tradeLogs, TradeLogEntry(userId, step, now))
                    /\ attempts' = attempts + 1
                    /\ lastOrder' = OrderRecord("manual", userId, "", settings[userId],
                                                 step, now, FALSE)
  /\ UNCHANGED <<settings, now, isRunning, timers, ticks, lastOk, lastFail, fresh,
                 lastTick,
                 reports, lastUpdate,
                 restarts, gateway, table, indicator>>

Next ==
  \/ StartLoop
  \/ TimerFire
  \/ \E s \in Slots : TickStep(s)
  \/ \E userId \in Users, updates \in Bodies : UpdateSettings(userId, updates)
  \/ \E userId \in Users, market \in ManualMarkets, amount \in Amounts :
        ManualBuy(userId, market, amount)
  \/ \E userId \in Users, market \in ManualMarkets : ManualSell(userId, market)

Spec == Init /\ [][Next]_vars


\* --------------------------------------------------------------- reports
\* the candle series, strategies and parameters the backtest is tried with:
\* twenty flat closes followed by every tail of TailLen closes
TailLen == 3
TailCloses == {900, 999, 1100}
BacktestCloses ==
  {[k \in 1..20 |-> 1000] \o tail : tail \in [1..TailLen -> TailCloses]} \cup {<<>>}
BacktestAnswers ==
  {[failed |-> FALSE, closes |-> c] : c \in BacktestCloses}
    \cup {[failed |-> TRUE, closes |-> <<>>]}
BacktestParams ==
  {NoParams,
   [buyThreshold |-> 10, sellThreshold |-> 10, targetAmount |-> 50000]}

\* a backtest request and the candles the exchange answers it with, not yet
\* served
Request(strategy, params, answer) ==
  [ran |-> FALSE, strategy |-> strategy, params |-> params, answer |-> answer,
   result |-> EmptyResult, at |-> [now |-> 0, logs |-> 0], again |-> FALSE]

\* runBacktest(market, strategy, days, params): reads the candles and returns
\* the result; nothing is stored. `again` records that the same request had
\* been served before, at another time or over another trade log.
RunBacktest ==
  /\ LET request == reports.backtest
     IN reports' = [reports EXCEPT !.backtest =
          [request EXCEPT
             !.ran = TRUE,
             !.result = runBacktest(request.strategy, request.answer, request.params),
             !.at = Seen,
             !.again = request.again \/ (request.ran /\ request.at # Seen)]]
  /\ UNCHANGED <<settings, tradeLogs, now, isRunning, timers, ticks, attempts,
                 lastOrder, lastOk, lastFail, fresh, lastTick, calls, lastUpdate,
                 restarts, gateway, table, indicator>>

\* variant of GetStatistics: serving the figures also appends to the trade log
GetStatistics_Logging(userId) ==
  /\ reports' = [reports EXCEPT !.statistics =
       [ran |-> TRUE, userId |-> userId, result |-> getStatistics(tradeLogs, userId)]]
  /\ tradeLogs' = createTradeLog(tradeLogs,
       [userId |-> userId, market |-> "KRW-BTC", side |-> "bid", price |-> 0,
        volume |-> 0, status |-> "failed", feePaid |-> Null, timestamp |-> now])
  /\ UNCHANGED <<settings, now, isRunning, timers, ticks, attempts,
                 lastOrder, lastOk, lastFail, fresh, lastTick, calls, lastUpdate,
                 restarts, gateway, table, indicator>>

\* getStatistics(userId): reads the user's trade log and returns the figures
GetStatistics(userId) ==
  /\ reports' = [reports EXCEPT !.statistics =
       [ran |-> TRUE, userId |-> userId, result |-> getStatistics(tradeLogs, userId)]]
  /\ UNCHANGED <<settings, tradeLogs, now, isRunning, timers, ticks, attempts,
                 lastOrder, lastOk, lastFail, fresh, lastTick, calls, lastUpdate,
                 restarts, gateway, table, indicator>>

\* the reports served while the scheduler trades for one percent user: every
\* backtest request is tried
InitReports ==
  /\ settings = [u \in Users |->
       IF u = "u1" THEN [Keyed EXCEPT !.referencePrice = 1000 * RefScale]
       ELSE NoRecord]
  /\ tradeLogs = <<>>
  /\ now = StartTime
  /\ isRunning = FALSE
  /\ timers = 0
  /\ ticks = [s \in Slots |-> IdleTick]
  /\ attempts = 0
  /\ lastOrder = NoOrder
  /\ lastOk = [u \in Users |-> Null]
  /\ lastFail = [u \in Users |-> Null]
  /\ fresh = {}
  /\ lastTick = NoTick
  /\ calls = 0
  /\ \E strategy \in Strategies, params \in BacktestParams, answer \in BacktestAnswers :
       reports = [NoReports EXCEPT !.backtest = Request(strategy, params, answer)]
  /\ lastUpdate = NoUpdate
  /\ restarts = NoRestart
  /\ gateway = NoGatewayCall
  /\ table = EmptyTable
  /\ indicator = NoIndicator

NextReports ==
  \/ StartLoop
  \/ TimerFire
  \/ \E s \in Slots : TickStep(s)
  \/ RunBacktest
  \/ \E userId \in Users : GetStatistics(userId)

SpecReports == InitReports /\ [][NextReports]_vars

\* --------------------------------------------------------------- restart
\* variant of Restart: referencePrice and lastTradeTime are lost with the
\* process, as if they were held in memory
Restart_Forgetting ==
  /\ isRunning
  /\ restarts.count < MaxRestarts
  /\ \A s \in Slots : ~ticks[s].busy
  /\ isRunning' = FALSE
  /\ timers' = 0
  /\ restarts' = [count |-> restarts.count + 1, at |-> now]
  /\ settings' = [u \in Users |->
       [settings[u] EXCEPT !.referencePrice = Null, !.lastTradeTime = Null]]
  /\ UNCHANGED <<tradeLogs, now, ticks, attempts, lastOrder, lastOk, lastFail,
                 fresh, lastTick, calls, reports, lastUpdate, gateway, table, indicator>>

\* The process is stopped between two callbacks and booted again: the fields
\* of the UpbitService object are those of a new object, its timer is gone,
\* and the database is what it was.
Restart ==
  /\ isRunning
  /\ restarts.count < MaxRestarts
  /\ \A s \in Slots : ~ticks[s].busy
  /\ isRunning' = FALSE
  /\ timers' = 0
  /\ restarts' = [count |-> restarts.count + 1, at |-> now]
  /\ UNCHANGED <<settings, tradeLogs, now, ticks, attempts, lastOrder, lastOk,
                 lastFail, fresh, lastTick, calls, reports, lastUpdate, gateway, table, indicator>>

\* one user with a reference price, inside or outside a cooldown window
InitRestart ==
  /\ \E s \in {"", "grid", "dca"}, c \in BOOLEAN :
       settings = [u \in Users |->
         IF u = "u1"
         THEN [Keyed EXCEPT !.strategy = s, !.referencePrice = 1000 * RefScale,
                            !.lastTradeTime = IF c THEN Recent(s) ELSE Null]
         ELSE NoRecord]
  /\ tradeLogs = <<>>
  /\ now = StartTime
  /\ isRunning = FALSE
  /\ timers = 0
  /\ ticks = [s \in Slots |-> IdleTick]
  /\ attempts = 0
  /\ lastOrder = NoOrder
  /\ lastOk = [u \in Users |-> Null]
  /\ lastFail = [u \in Users |-> Null]
  /\ fresh = {}
  /\ lastTick = NoTick
  /\ calls = 0
  /\ reports = NoReports
  /\ lastUpdate = NoUpdate
  /\ restarts = NoRestart
  /\ gateway = NoGatewayCall
  /\ table = EmptyTable
  /\ indicator = NoIndicator

NextRestart ==
  \/ StartLoop
  \/ TimerFire
  \/ \E s \in Slots : TickStep(s)
  \/ Restart

SpecRestart == InitRestart /\ [][NextRestart]_vars

\* --------------------------------------------------------------- gateway
SecretKeys == {"", "secret"}

\* one call of an Exchange Gateway operation, by the scheduler, a manual call
\* or the key verification
GatewayCall(operation, secretKey, response) ==
  /\ gateway' = [served |-> TRUE, operation |-> operation, secretKey |-> secretKey,
                 response |-> response,
                 returned |-> Gateway(operation, secretKey, response)]
  /\ UNCHANGED <<settings, tradeLogs, now, isRunning, timers, ticks, attempts,
                 lastOrder, lastOk, lastFail, fresh, lastTick, calls, reports,
                 lastUpdate, restarts, table, indicator>>

NextGateway ==
  \/ StartLoop
  \/ TimerFire
  \/ \E s \in Slots : TickStep(s)
  \/ \E operation \in GatewayOperations, secretKey \in SecretKeys,
        response \in Responses : GatewayCall(operation, secretKey, response)

SpecGateway == InitRestart /\ [][NextGateway]_vars

\* ------------------------------------------------------------ indicators
\* the series calculateRSI is tried on: the candle answers with the period
\* 14 the strategies pass, and every series of up to MaxSeriesLen prices
\* among 0, 1 and 2 with the period 2
RsiInputs ==
  {[prices |-> c, period |-> 14] : c \in CandleSeries}
    \cup UNION {{[prices |-> p, period |-> 2] : p \in [1..n -> 0..2]} :
                  n \in 0..MaxSeriesLen}

CalculateRSI(prices, period) ==
  /\ indicator' = [asked |-> TRUE, prices |-> prices, period |-> period,
                   rsi |-> calculateRSI(prices, period)]
  /\ UNCHANGED <<settings, tradeLogs, now, isRunning, timers, ticks, attempts,
                 lastOrder, lastOk, lastFail, fresh, lastTick, calls, reports,
                 lastUpdate, restarts, gateway, table>>

NextIndicators == \E input \in RsiInputs : CalculateRSI(input.prices, input.period)

SpecIndicators == InitRestart /\ [][NextIndicators]_vars

\* ----------------------------------------------------------------- store
\* updateBotSettings statement by statement: the SELECT of getBotSettings,
\* then the UPDATE of the row found or the INSERT of a new one. Calls are
\* promises on one connection pool: the statements of two calls interleave.
Partials == {[buyThreshold |-> 100], [market |-> "KRW-ETH"], [isActive |-> TRUE]}

\* the positions in table.rows of the rows of userId
RowsOf(userId) == {i \in 1..Len(table.rows) : table.rows[i].userId = userId}

\* const existing = await this.getBotSettings(userId): the first row of the
\* user, 0 when there is none
UpsertRead(w, userId, partial) ==
  /\ table.writers[w].pc = "idle"
  /\ table' = [table EXCEPT !.writers[w] =
       [pc |-> "read", userId |-> userId, partial |-> partial,
        existing |-> IF RowsOf(userId) = {} THEN 0
                     ELSE CHOOSE i \in RowsOf(userId) : \A j \in RowsOf(userId) : i <= j]]
  /\ UNCHANGED <<settings, tradeLogs, now, isRunning, timers, ticks, attempts,
                 lastOrder, lastOk, lastFail, fresh, lastTick, calls, reports,
                 lastUpdate, restarts, gateway, indicator>>

\* if (existing) UPDATE ... SET partial WHERE id = existing.id, else INSERT
\* {userId, isActive: false, market: "KRW-BTC", ...partial}. The table's
\* constraints are not part of the sources: an INSERT for a user that has a
\* row by now either adds a second row or is refused, and the call throws.
UpsertWrite(w) ==
  /\ table.writers[w].pc = "read"
  /\ LET call == table.writers[w]
     IN IF call.existing # 0
        THEN table' = [table EXCEPT
               !.rows[call.existing].row = Overlay(@, call.partial),
               !.writers[w].pc = "done"]
        ELSE \/ table' = [table EXCEPT
                  !.rows = Append(@, [userId |-> call.userId,
                                      row |-> Overlay(DefaultRecord, call.partial)]),
                  !.writers[w].pc = "done"]
             \/ /\ RowsOf(call.userId) # {}
                /\ table' = [table EXCEPT !.writers[w].pc = "threw"]
  /\ UNCHANGED <<settings, tradeLogs, now, isRunning, timers, ticks, attempts,
                 lastOrder, lastOk, lastFail, fresh, lastTick, calls, reports,
                 lastUpdate, restarts, gateway, indicator>>

\* no user has a row yet, or u2 has one
InitStore ==
  /\ \E stored \in {NoRecord, Keyed} :
       /\ settings = [u \in Users |-> IF u = "u2" THEN stored ELSE NoRecord]
       /\ table = [EmptyTable EXCEPT !.rows =
                     IF stored.exists THEN <<[userId |-> "u2", row |-> stored]>>
                     ELSE <<>>]
  /\ tradeLogs = <<>>
  /\ now = StartTime
  /\ isRunning = FALSE
  /\ timers = 0
  /\ ticks = [s \in Slots |-> IdleTick]
  /\ attempts = 0
  /\ lastOrder = NoOrder
  /\ lastOk = [u \in Users |-> Null]
  /\ lastFail = [u \in Users |-> Null]
  /\ fresh = {}
  /\ lastTick = NoTick
  /\ calls = 0
  /\ reports = NoReports
  /\ lastUpdate = NoUpdate
  /\ restarts = NoRestart
  /\ gateway = NoGatewayCall
  /\ indicator = NoIndicator

NextStore ==
  \/ \E w \in Writers, userId \in Users, partial \in Partials :
       UpsertRead(w, userId, partial)
  \/ \E w \in Writers : UpsertWrite(w)

SpecStore == InitStore /\ [][NextStore]_vars

\* -------------------------------------------------------------- backtest
\* the backtest requests alone, each served on the candles drawn for it
NextBacktest == RunBacktest

SpecBacktest == InitReports /\ [][NextBacktest]_vars

\* ------------------------------------------------------------ strategies
\* one user's row per run: grid rows whose step is above, at and below the
\* fee buffer, with references a few levels away from the prices read, and
\* one with a step of 10% whose reference is nearly two steps above them
GridRows ==
  {[Keyed EXCEPT !.strategy = "grid", !.buyThreshold = g, !.referencePrice = r * RefScale] :
     <<g, r>> \in {<<50, 1000>>, <<100, 1020>>, <<10, 998>>, <<100, 980>>,
                   <<1000, 1230>>}}

\* rows that decide on candles, past their cooldown at the first firing or
\* at the second
CandleRows ==
  {[Keyed EXCEPT !.strategy = s, !.lastTradeTime = IF c THEN Recent(s) ELSE Null] :
     s \in {"dca", "bollinger"}, c \in BOOLEAN}

\* rows trading two markets on equal shares, with and without a reference
PortfolioRows ==
  {Portfolio([Keyed EXCEPT !.referencePrice = r], <<1, 1>>) :
     r \in {Null, 1000 * RefScale}}

StrategyRows == GridRows \cup CandleRows \cup PortfolioRows

InitStrategies ==
  /\ \E row \in StrategyRows :
       settings = [u \in Users |-> IF u = "u1" THEN row ELSE NoRecord]
  /\ tradeLogs = <<>>
  /\ now = StartTime
  /\ isRunning = FALSE
  /\ timers = 0
  /\ ticks = [s \in Slots |-> IdleTick]
  /\ attempts = 0
  /\ lastOrder = NoOrder
  /\ lastOk = [u \in Users |-> Null]
  /\ lastFail = [u \in Users |-> Null]
  /\ fresh = {}
  /\ lastTick = NoTick
  /\ calls = 0
  /\ reports = NoReports
  /\ lastUpdate = NoUpdate
  /\ restarts = NoRestart
  /\ gateway = NoGatewayCall
  /\ table = EmptyTable
  /\ indicator = NoIndicator

NextStrategies ==
  \/ StartLoop
  \/ TimerFire
  \/ \E s \in Slots : TickStep(s)

SpecStrategies == InitStrategies /\ [][NextStrategies]_vars

\* ------------------------------------------------------------ statistics
\* the trade logs the statistics are tried on: every log of up to MaxLogLen
\* entries of unit volume, and one log longer than a page of getTradeLogs
MaxLogLen == 3
LogPrices == {100, 110}

LogEntry(userId, side, status, price, at) ==
  [userId |-> userId, market |-> "KRW-BTC", side |-> side, price |-> price,
   volume |-> VolScale, status |-> status, feePaid |-> Null, timestamp |-> at]

LogEntries ==
  {LogEntry(userId, side, status, price, 0) :
     userId \in Users, side \in {"bid", "ask"}, status \in {"success", "failed"},
     price \in LogPrices}

\* a buy at 100, forty-nine rejected orders, then a sell at 110
LongLog ==
  [i \in 1..51 |->
     IF i = 1 THEN LogEntry("u1", "bid", "success", 100, 1000)
     ELSE IF i = 51 THEN LogEntry("u1", "ask", "success", 110, 51000)
     ELSE LogEntry("u1", "bid", "failed", 100, i * 1000)]

LogInputs ==
  UNION {{[i \in 1..n |-> [log[i] EXCEPT !.timestamp = i * 1000]] :
            log \in [1..n -> LogEntries]} : n \in 0..MaxLogLen}
    \cup {LongLog}

\* the trade log found in the database when the process boots
InitStatistics ==
  /\ tradeLogs \in LogInputs
  /\ settings = [u \in Users |-> Keyed]
  /\ now = StartTime
  /\ isRunning = FALSE
  /\ timers = 0
  /\ ticks = [s \in Slots |-> IdleTick]
  /\ attempts = 0
  /\ lastOrder = NoOrder
  /\ lastOk = [u \in Users |-> Null]
  /\ lastFail = [u \in Users |-> Null]
  /\ fresh = {}
  /\ lastTick = NoTick
  /\ calls = 0
  /\ reports = NoReports
  /\ lastUpdate = NoUpdate
  /\ restarts = NoRestart
  /\ gateway = NoGatewayCall
  /\ table = EmptyTable
  /\ indicator = NoIndicator

NextStatistics == \E userId \in Users : GetStatistics(userId)

SpecStatistics == InitStatistics /\ [][NextStatistics]_vars

\* ------------------------------------------------------------- properties
\* the user and the market the callback in slot s evaluates next
EvaluatedUser(s) == ticks[s].users[ticks[s].ui]

EvaluatedMarket(s) == marketsToTrade(ticks[s].snap[EvaluatedUser(s)])[ticks[s].mi].market

\* the callback in slot s takes its next step
Steps(s) == ticks[s].busy /\ ticks'[s] # ticks[s]

\* the scheduler places an order in this step
BotOrders == attempts' > attempts /\ lastOrder'.src = "bot"

\* C1: any two orders the scheduler placed for one user that both succeeded
\* are at least the strategy's cooldown apart, whatever the interleaving
\* (single market, portfolio of several markets, overlapping callbacks).
C1_CooldownSeparatesOrders ==
  (lastOrder.src = "bot" /\ lastOrder.ok /\ lastOrder.prevOk # Null)
    => lastOrder.time - lastOrder.prevOk >= Cooldown(lastOrder.strategy)

\* C2: every order submitted, by the scheduler or by a manual call, is worth
\* at least 5,000 KRW: a buy's amount, a sell's volume times the price read.
C2_OrdersMeetMinimum ==
  lastOrder.src # "none"
    => IF lastOrder.side = "bid"
       THEN lastOrder.amount >= 5000
       ELSE lastOrder.volume * lastOrder.price >= 5000 * VolScale

\* the scheduler places a buy of exactly the minimum (half of a 10,000 KRW
\* target), having skipped nothing
C2_Witness ==
  lastOrder.src = "bot" /\ lastOrder.side = "bid" /\ lastOrder.amount = 5000

\* C3: when the evaluation of one active user fails during a callback, every
\* active user after it is still evaluated in that callback: a callback that
\* has ended has visited every user it fetched.
C3_FailureIsContained ==
  lastTick.users # <<>> => lastTick.visited = Range(lastTick.users)

\* C4: a percent or grid evaluation handed a row whose referencePrice is unset
\* or zero does nothing but store the current price as referencePrice: no
\* order, no trade-log entry, lastTradeTime as it was.
C4_AwaitingReferenceOnlyInitializes ==
  [][\A s \in Slots :
       (/\ Steps(s)
        /\ StrategyOf(ticks[s].snap[EvaluatedUser(s)]) \in {"percent", "grid"}
        /\ ticks[s].snap[EvaluatedUser(s)].referencePrice \in {Null, 0})
       => /\ attempts' = attempts
          /\ tradeLogs' = tradeLogs
          /\ \A u \in Users \ {EvaluatedUser(s)} : settings'[u] = settings[u]
          /\ \/ settings'[EvaluatedUser(s)] = settings[EvaluatedUser(s)]
             \/ \E price \in PricesOf(EvaluatedMarket(s)) \ {0} :
                  settings'[EvaluatedUser(s)] =
                    [settings[EvaluatedUser(s)] EXCEPT !.referencePrice = price * RefScale]
  ]_vars

\* a row that had no referencePrice holds the price 994 and nothing was ordered
C4_Witness ==
  \E u \in Users :
     /\ StrategyOf(settings[u]) \in {"percent", "grid"}
     /\ settings[u].referencePrice = 994 * RefScale
     /\ attempts = 0
     /\ tradeLogs = <<>>

\* C5: under percent and grid, the first cycle after the bot is activated or
\* its market or strategy is changed through the settings-update call places
\* no order.
C5_FirstCycleOnlyInitializes ==
  ~(/\ lastOrder.src = "bot"
    /\ lastOrder.firstCycle
    /\ lastOrder.strategy \in {"percent", "grid"})

\* C6: right after an order of the scheduler that the exchange accepted, the
\* user's row holds the time of the execution as lastTradeTime; under percent
\* it holds the execution price as referencePrice, under grid the reference
\* shifted by the levels consumed.
C6_SuccessUpdatesState ==
  [][(BotOrders /\ lastOrder'.ok)
       => LET o == lastOrder'
              row == settings'[o.userId]
              reference == o.given.referencePrice
              step == Max(IF o.given.buyThreshold = Null THEN 100 ELSE o.given.buyThreshold,
                          2 * (IF o.given.feeRate = Null THEN 5 ELSE o.given.feeRate) + 5)
              move == o.price * RefScale - reference
              levels == ((IF move < 0 THEN -move ELSE move) * BpScale) \div (step * reference)
          IN /\ row.lastTradeTime = o.time
             /\ o.strategy = "percent" => row.referencePrice = o.price * RefScale
             /\ o.strategy = "grid" =>
                  row.referencePrice =
                    IF o.side = "bid"
                    THEN (reference * (BpScale - step * levels)) \div BpScale
                    ELSE (reference * (BpScale + step * levels)) \div BpScale
  ]_vars

\* a grid buy was accepted: the row holds its time and a reference that is
\* not the execution price
C6_Witness ==
  /\ lastOrder.src = "bot" /\ lastOrder.ok /\ lastOrder.strategy = "grid"
  /\ settings[lastOrder.userId].lastTradeTime = lastOrder.time
  /\ settings[lastOrder.userId].referencePrice # lastOrder.price * RefScale
  /\ settings[lastOrder.userId].referencePrice # lastOrder.given.referencePrice

\* C7: an order of the scheduler that fails is placed once in its evaluation,
\* gets exactly one trade-log entry, with status failed, and leaves the user's
\* referencePrice and lastTradeTime as they were.
C7_FailureLeavesState ==
  [][(BotOrders /\ ~lastOrder'.ok)
       => /\ attempts' = attempts + 1
          /\ Len(tradeLogs') = Len(tradeLogs) + 1
          /\ tradeLogs'[Len(tradeLogs')].status = "failed"
          /\ tradeLogs'[Len(tradeLogs')].userId = lastOrder'.userId
          /\ settings' = settings
  ]_vars

\* an order is placed in a later cycle, less than the cooldown after the same
\* user's order failed
C7_Witness ==
  /\ lastOrder.src = "bot"
  /\ lastOrder.prevFail # Null
  /\ lastOrder.prevFail < lastOrder.time
  /\ lastOrder.time - lastOrder.prevFail < Cooldown(lastOrder.strategy)
  /\ lastOrder.given.lastTradeTime = Null
  /\ tradeLogs[1].status = "failed"

\* C8: the trade log only grows at its end, and after every step it holds as
\* many entries as orders were placed, by the scheduler or by a manual call.
C8_LogIsAppendOnly ==
  [][/\ Len(tradeLogs') = attempts'
     /\ Len(tradeLogs') >= Len(tradeLogs)
     /\ SubSeq(tradeLogs', 1, Len(tradeLogs)) = tradeLogs
  ]_vars

\* a failed order of the scheduler on KRW-BTC and, after it, a manual order on
\* KRW-ETH are both in the log
C8_Witness ==
  /\ Len(tradeLogs) = 2
  /\ tradeLogs[1].status = "failed"
  /\ lastOrder.src = "manual"
  /\ tradeLogs[1].market = "KRW-BTC"
  /\ tradeLogs[2].market = "KRW-ETH"

C11_RsiSignalPlacesOrder ==
  [][\A s \in Slots :
       (Steps(s) /\ StrategyOf(ticks[s].snap[EvaluatedUser(s)]) = "rsi")
         => (ticks'[s].busy \/ ~lastTick'.threw)
  ]_vars

\* C12: at every candle of a backtest request, for each of the six strategies,
\* the signal the backtest derives equals the signal the live evaluator derives
\* from the same closes and thresholds, with the default fee buffer and the
\* previous close as reference price.
C12_BacktestSignalsMatchLive ==
  LET request == reports.backtest
      closes == request.answer.closes
  IN \A n \in 21..Len(closes) :
       BacktestSignal(request.strategy, SubSeq(closes, 1, n), request.params)
         = LiveSignal(request.strategy, SubSeq(closes, 1, n), request.params)

C14_ReportsAreReadOnly ==
  [][reports' # reports
       => /\ tradeLogs' = tradeLogs
          /\ settings' = settings
          /\ attempts' = attempts
          /\ lastOrder' = lastOrder]_vars

\* both reports were served after the scheduler had traded: the backtest over
\* a non-empty trade log, the statistics over a completed round trip
C14_Witness ==
  /\ reports.backtest.ran
  /\ reports.backtest.at.logs > 0
  /\ reports.statistics.ran
  /\ reports.statistics.result.monthly # <<>>
  /\ settings["u1"].lastTradeTime # Null

\* C15: a settings-update request whose numbers are in range is accepted
\* exactly when the strategy it names is one of the six kinds the scheduler
\* dispatches, and one with a threshold outside 0..100 or a negative
\* targetAmount is answered with an error.
C15_UpdateValidation ==
  LET updates == lastUpdate.updates
      has(f) == f \in DOMAIN updates
      outOfRange ==
        \/ has("buyThreshold") /\ (updates.buyThreshold < 0 \/ updates.buyThreshold > 100 * 100)
        \/ has("sellThreshold")
             /\ (updates.sellThreshold < 0 \/ updates.sellThreshold > 100 * 100)
        \/ has("targetAmount") /\ updates.targetAmount < 0
  IN lastUpdate.served =>
       /\ outOfRange => lastUpdate.status = 400
       /\ (has("strategy") /\ ~outOfRange)
            => (lastUpdate.status = 200 <=> updates.strategy \in Strategies)

\* C16: whenever a user's referencePrice or lastTradeTime changes, the step is
\* the scheduler evaluating that user, and it either initializes a missing
\* referencePrice or has just had an order accepted.
C16_StateChangesOnlyByScheduler ==
  [][\A u \in Users :
       (\/ settings'[u].referencePrice # settings[u].referencePrice
        \/ settings'[u].lastTradeTime # settings[u].lastTradeTime)
         => \E s \in Slots :
              /\ Steps(s)
              /\ EvaluatedUser(s) = u
              /\ \/ AwaitingReference(ticks[s].snap[u])
                 \/ BotOrders /\ lastOk'[u] = now
  ]_vars

\* C17: in every step of a callback the allocations of the evaluated user's
\* markets sum to 100 percent, proportional to the raw weights when there is
\* one positive weight per market and equal otherwise; the amount of an order
\* placed is floor(base * allocation / 100); and a market whose amount is below
\* 5000 is passed over without an order, a log entry or a state change, the
\* callback going on to the next market.
C17_PortfolioAllocation ==
  [][\A s \in Slots :
       Steps(s) =>
         LET tk == ticks[s]
             fetched == tk.snap[EvaluatedUser(s)]
             base == ParseOr(fetched.targetAmount, 10000)
             markets == marketsToTrade(fetched)
             raw == SelectSeq(fetched.portfolioAllocations, LAMBDA a : a > 0)
             amount == (base * markets[tk.mi].num) \div markets[tk.mi].den
         IN (HasKeys(fetched) /\ base > 0) =>
              /\ \A i \in 1..Len(markets) : markets[i].den = markets[1].den
              /\ SumSeq([i \in 1..Len(markets) |-> markets[i].num]) = markets[1].den
              /\ IF Len(fetched.portfolioMarkets) > 0
                      /\ Len(raw) = Len(fetched.portfolioMarkets)
                 THEN \A i, j \in 1..Len(markets) :
                        markets[i].num * raw[j] = markets[j].num * raw[i]
                 ELSE \A i, j \in 1..Len(markets) : markets[i].num = markets[j].num
              /\ BotOrders => lastOrder'.given.targetAmount = amount
              /\ amount < 5000 =>
                   /\ attempts' = attempts
                   /\ tradeLogs' = tradeLogs
                   /\ settings' = settings
                   /\ ticks'[s] = NextMarket(tk)
  ]_vars

\* with the weights 2 and 3 over a base of 10,000 the first market (4,000) was
\* passed over and the second was bought for 6,000
C17_Witness ==
  /\ lastOrder.src = "bot"
  /\ lastOrder.given.portfolioAllocations = <<2, 3>>
  /\ lastOrder.market = "KRW-ETH"
  /\ lastOrder.side = "bid"
  /\ lastOrder.amount = 6000

\* C18: when a callback comes to an active user whose access key or secret key
\* is missing, it places no order, appends no trade-log entry and changes no
\* settings, and goes on to the next user it fetched.
C18_MissingKeysSkipUser ==
  [][\A s \in Slots :
       LET fetched == ticks[s].snap[EvaluatedUser(s)]
       IN (Steps(s) /\ ~(fetched.upbitAccessKey /\ fetched.upbitSecretKey))
            => /\ attempts' = attempts
               /\ tradeLogs' = tradeLogs
               /\ settings' = settings
               /\ ticks'[s] = NextUser(ticks[s])
               /\ ~lastTick'.threw
  ]_vars

\* a callback passed over u1, whose secret key is missing, and then placed an
\* order for u2
C18_Witness ==
  /\ settings["u1"].isActive /\ ~settings["u1"].upbitSecretKey
  /\ lastTick.visited = {"u1", "u2"}
  /\ ~lastTick.threw
  /\ lastOrder.src = "bot" /\ lastOrder.userId = "u2"
  /\ settings["u1"].referencePrice = Null /\ settings["u1"].lastTradeTime = Null

\* C19: a restart leaves the stored settings and the trade log as they were;
\* the callbacks after it evaluate the rows the store holds when they start,
\* place an order only when the cooldown counted from the stored lastTradeTime
\* has elapsed, and never replace a referencePrice that is set without an order.
C19_RestartKeepsDecisions ==
  [][/\ restarts'.count > restarts.count
          => settings' = settings /\ tradeLogs' = tradeLogs
     /\ \A s \in Slots :
          (~ticks[s].busy /\ ticks'[s].busy) => ticks'[s].snap = settings
     /\ \A s \in Slots :
          (Steps(s) /\ restarts.count > 0) =>
            LET u == EvaluatedUser(s)
                row == ticks[s].snap[u]
            IN /\ (BotOrders /\ row.lastTradeTime # Null)
                    => now - row.lastTradeTime >= Cooldown(StrategyOf(row))
               /\ (~BotOrders /\ row.referencePrice \notin {Null, 0})
                    => settings'[u].referencePrice = settings[u].referencePrice
  ]_vars

\* the process was restarted inside the cooldown window, after the first
\* firing, and the callback of the second firing, the window over, placed an
\* order against the stored referencePrice
C19_Witness ==
  /\ restarts.count = 1
  /\ restarts.at = StartTime + TickMs
  /\ lastOrder.src = "bot"
  /\ lastOrder.time = StartTime + 2 * TickMs
  /\ lastOrder.given.lastTradeTime = Recent("percent")
  /\ lastOrder.given.referencePrice = 1000 * RefScale

\* C20: an order the scheduler places for a row whose referencePrice is set,
\* at a price that has dropped from it by at least stopLossPercent (5 when
\* unset) or risen by at least takeProfitPercent (10 when unset), is a sell.
C20_StopLossTakeProfitSells ==
  (lastOrder.src = "bot" /\ lastOrder.given.referencePrice \notin {Null, 0})
    => LET referencePrice == lastOrder.given.referencePrice
           stopLoss == ParseOr(lastOrder.given.stopLossPercent, 500)
           takeProfit == ParseOr(lastOrder.given.takeProfitPercent, 1000)
           diff == lastOrder.price * RefScale - referencePrice
       IN (\/ diff * BpScale <= -(stopLoss * referencePrice)
           \/ diff * BpScale >= takeProfit * referencePrice)
            => lastOrder.side = "ask"

\* C21: whatever its request comes to (no response, a rejection by the
\* exchange, a body of another shape, a secret key that cannot sign), a gateway
\* operation returns to its caller, and when the request did not succeed the
\* value returned is the failure value of the operation: price 0, no candles,
\* balance 0, or success false with a message.
C21_GatewayReturnsFailures ==
  gateway.served =>
    LET failed == \/ gateway.response.kind # "ok"
                  \/ /\ ~Signs(gateway.secretKey)
                     /\ gateway.operation \notin {"getCurrentPrice", "getCandles"}
        returned == gateway.returned
    IN /\ ~returned.escaped
       /\ failed =>
            CASE gateway.operation \in {"getCurrentPrice", "getAccountBalance"} ->
                   returned.number = 0
              [] gateway.operation = "getCandles" -> returned.list = <<>>
              [] OTHER -> ~returned.success /\ returned.message # ""

\* after the scheduler had traded, a buy order the exchange rejected was
\* returned as a failure carrying the exchange's message
C21_Witness ==
  /\ gateway.served
  /\ gateway.operation = "placeBuyOrder"
  /\ gateway.response.kind = "rejected"
  /\ gateway.returned = Returned(0, <<>>, FALSE, "insufficient funds")
  /\ tradeLogs # <<>>

\* The profits of the round trips of a user's entries: each successful sell
\* with the oldest successful buy not yet matched, in log order.
RECURSIVE RoundTripProfits(_, _)
RoundTripProfits(entries, buys) ==
  IF entries = <<>> THEN <<>>
  ELSE LET entry == Head(entries)
       IN IF entry.side = "bid"
          THEN RoundTripProfits(Tail(entries), Append(buys, entry))
          ELSE IF buys # <<>>
          THEN <<(entry.price - Head(buys).price) * entry.volume>>
                 \o RoundTripProfits(Tail(entries), Tail(buys))
          ELSE RoundTripProfits(Tail(entries), buys)

\* C22: the statistics served for a user are those of the round trips of the
\* user's successful entries matched first-in first-out: as many trades as
\* round trips, their profits summed, and the share of the profitable ones as
\* winRate; failed entries and sells without an unmatched buy count for
\* nothing.
C22_StatisticsMatchFifo ==
  reports.statistics.ran =>
    LET mine == SelectSeq(tradeLogs, LAMBDA l :
                  l.userId = reports.statistics.userId /\ l.status = "success")
        profits == RoundTripProfits(mine, <<>>)
        wins == Len(SelectSeq(profits, LAMBDA p : p > 0))
        result == reports.statistics.result
    IN /\ SumSeq([k \in 1..Len(result.daily) |-> result.daily[k].trades]) = Len(profits)
       /\ result.totalProfit = SumSeq(profits)
       /\ result.winRate = IF Len(profits) > 0 THEN (wins * 100) \div Len(profits) ELSE 0

\* C23: a grid order is sized by the levels the price moved from the
\* reference of the row handed to the evaluation: with effectiveStep =
\* max(gridStep, feeBuffer) and gridLevels = floor(|change| / effectiveStep),
\* no order is placed when gridLevels is 0, a buy spends gridLevels *
\* targetAmount and a sell gives min(gridLevels * 25%, 100%) of the coin
\* balance read.
C23_GridSizing ==
  (lastOrder.src = "bot" /\ lastOrder.strategy = "grid")
    => LET given == lastOrder.given
           reference == given.referencePrice
           move == lastOrder.price * RefScale - reference
           gridStep == IF given.buyThreshold = Null THEN 100 ELSE given.buyThreshold
           feeBuffer == 2 * (IF given.feeRate = Null THEN 5 ELSE given.feeRate) + 5
           effectiveStep == IF gridStep > feeBuffer THEN gridStep ELSE feeBuffer
           gridLevels == ((IF move < 0 THEN -move ELSE move) * BpScale)
                           \div (effectiveStep * reference)
           quarters == IF gridLevels * 25 < 100 THEN gridLevels * 25 ELSE 100
       IN /\ gridLevels >= 1
          /\ lastOrder.side = "bid" =>
               /\ move < 0
               /\ lastOrder.amount = gridLevels * given.targetAmount
          /\ lastOrder.side = "ask" =>
               /\ move > 0
               /\ lastOrder.volume * 100 = quarters * lastOrder.balanceRead * VolScale

\* a step of 1% with the reference 980 and the price 1010: three levels up,
\* three quarters of the 20 coins are sold
C23_Witness ==
  /\ lastOrder.src = "bot" /\ lastOrder.strategy = "grid"
  /\ lastOrder.side = "ask"
  /\ lastOrder.given.referencePrice = 980 * RefScale
  /\ lastOrder.price = 1010
  /\ lastOrder.balanceRead = 20
  /\ lastOrder.volume = 15 * VolScale

\* C24: a grid evaluation that places a successful order for L levels from
\* the reference R of the row it was handed leaves the user's referencePrice
\* at R * (1 - effectiveStep * L) after a buy and R * (1 + effectiveStep * L)
\* after a sell, whatever the price read; a grid evaluation whose order
\* failed, or that placed none, leaves the referencePrice as it was.
C24_GridReferenceMovesByLevels ==
  [][\A s \in Slots :
       (/\ Steps(s)
        /\ StrategyOf(ticks[s].snap[EvaluatedUser(s)]) = "grid"
        /\ ticks[s].snap[EvaluatedUser(s)].referencePrice # Null)
         => LET userId == EvaluatedUser(s)
                order == lastOrder'
                R == order.given.referencePrice
                move == order.price * RefScale - R
                gridStep == IF order.given.buyThreshold = Null THEN 100
                            ELSE order.given.buyThreshold
                feeBuffer == 2 * (IF order.given.feeRate = Null THEN 5
                                  ELSE order.given.feeRate) + 5
                effectiveStep == IF gridStep > feeBuffer THEN gridStep ELSE feeBuffer
                L == ((IF move < 0 THEN -move ELSE move) * BpScale)
                       \div (effectiveStep * R)
            IN IF attempts' > attempts /\ order.ok
               THEN settings'[userId].referencePrice =
                      IF order.side = "bid"
                      THEN (R * (BpScale - effectiveStep * L)) \div BpScale
                      ELSE (R * (BpScale + effectiveStep * L)) \div BpScale
               ELSE settings'[userId].referencePrice = settings[userId].referencePrice
  ]_vars

\* two levels of 1% down from 1020 at the price 994: the reference is 999.6
C24_Witness ==
  /\ lastOrder.src = "bot" /\ lastOrder.strategy = "grid"
  /\ lastOrder.side = "bid" /\ lastOrder.ok
  /\ lastOrder.given.referencePrice = 1020 * RefScale
  /\ lastOrder.price = 994
  /\ settings[lastOrder.userId].referencePrice = 99960

C28_CadenceIndependentOfDuration ==
  /\ []((isRunning /\ now < StartTime + MaxTicks * TickMs) => ENABLED TimerFire)
  /\ [][now' # now =>
          /\ now' = now + TickMs
          /\ \A s \in Slots : ticks[s].busy => ticks'[s] = ticks[s]
          /\ ActiveUsers # <<>> =>
               \E s \in Slots : /\ ~ticks[s].busy /\ ticks'[s].busy
                                /\ ticks'[s].snap = settings
     ]_vars

\* two callbacks in flight, both about to evaluate u1, on different rows
C28_Witness ==
  /\ \A s \in Slots : ticks[s].busy /\ EvaluatedUser(s) = "u1"
  /\ ticks[1].snap["u1"] # ticks[2].snap["u1"]
  /\ ticks[1].mi = 2

\* the ledger of the served backtest request after its n-th candle
LedgerAt(n) ==
  LET request == reports.backtest
  IN BacktestLoop(request.strategy, SubSeq(request.answer.closes, 1, n),
                  request.params, 21, InitialLedger(request.params))

\* the candles the loop of the served backtest request goes through
Looped == 21..Len(reports.backtest.answer.closes)

\* C29: the backtest holds at most one position: at each candle a buy is
\* recorded only when no position was open and a sell only when one was, so
\* the trades alternate bid, ask, starting with a bid; a position still open
\* after the last candle is closed at the last close, and the result ends
\* with no position open.
C29_BacktestHoldsOnePosition ==
  reports.backtest.ran =>
    LET closes == reports.backtest.answer.closes
        trades == reports.backtest.result.trades
        last == LedgerAt(Len(closes))
    IN /\ \A n \in Looped :
            LET before == LedgerAt(n - 1)
                after == LedgerAt(n)
            IN /\ before.open <=> Len(before.trades) % 2 = 1
               /\ \/ after.trades = before.trades
                  \/ /\ Len(after.trades) = Len(before.trades) + 1
                     /\ after.trades[Len(after.trades)].side =
                          IF before.open THEN "ask" ELSE "bid"
                     /\ after.trades[Len(after.trades)].price = closes[n]
                     /\ SubSeq(after.trades, 1, Len(before.trades)) = before.trades
       /\ \A k \in 1..Len(trades) :
            trades[k].side = IF k % 2 = 1 THEN "bid" ELSE "ask"
       /\ Len(trades) % 2 = 0
       /\ Looped # {} =>
            trades = IF last.open
                     THEN Append(last.trades,
                                 [timestamp |-> Len(closes), side |-> "ask",
                                  price |-> closes[Len(closes)],
                                  profit |-> trades[Len(trades)].profit])
                     ELSE last.trades

\* bought at 900, sold at 1100, bought again at 900 on the last candle: the
\* position left open is closed at 900
C29_Witness ==
  /\ reports.backtest.ran
  /\ Len(reports.backtest.result.trades) = 4
  /\ LedgerAt(Len(reports.backtest.answer.closes)).open
  /\ reports.backtest.result.trades[4].price = 900

\* the value of the ledger of the served backtest request at its n-th candle
ValueAt(n) ==
  LET ledger == LedgerAt(n)
      price == reports.backtest.answer.closes[n]
  IN IF ledger.open THEN (ledger.stake * price) \div ledger.entryPrice
     ELSE ledger.balance

\* C30: through the candles of a backtest the peak never decreases and is
\* never below the current value, and the maxDrawdown returned is the largest
\* (peak - current) / peak * 100 of any candle, between 0 and 100.
C30_DrawdownIsLargestSeen ==
  reports.backtest.ran =>
    LET drawdown(n) == ((LedgerAt(n).peak - ValueAt(n)) * BpScale) \div LedgerAt(n).peak
        maxDrawdown == reports.backtest.result.maxDrawdown
    IN /\ \A n \in Looped :
            /\ LedgerAt(n).peak >= LedgerAt(n - 1).peak
            /\ LedgerAt(n).peak >= ValueAt(n)
            /\ drawdown(n) <= maxDrawdown
       /\ maxDrawdown >= 0 /\ maxDrawdown <= 100 * 100
       /\ maxDrawdown > 0 => \E n \in Looped : drawdown(n) = maxDrawdown

\* bought at 1100, the close fell to 900 and came back to 999: the drawdown
\* returned is the 18.18 % of the second candle, not the 9.18 % of the last
C30_Witness ==
  /\ reports.backtest.ran
  /\ reports.backtest.result.maxDrawdown = 1818
  /\ LedgerAt(Len(reports.backtest.answer.closes)).peak
       > ValueAt(Len(reports.backtest.answer.closes))
  /\ reports.backtest.answer.closes[Len(reports.backtest.answer.closes)] = 999

\* C31: after any interleaving of updateBotSettings calls there is at most
\* one row per user, no call has failed, the row of a user written once is
\* the defaults (isActive false, market KRW-BTC) overlaid by the fields
\* given, and every field a finished call wrote is in the user's row unless
\* another finished call for the user wrote that field too.
C31_AtomicUpsert ==
  LET done == {w \in Writers : table.writers[w].pc = "done"}
  IN /\ \A userId \in Users : Cardinality(RowsOf(userId)) <= 1
     /\ \A w \in Writers : table.writers[w].pc # "threw"
     /\ \A w \in done :
          LET call == table.writers[w]
              others == {v \in done \ {w} : table.writers[v].userId = call.userId}
          IN \E i \in RowsOf(call.userId) :
               /\ (call.existing = 0 /\ others = {}) =>
                    table.rows[i].row = Overlay(DefaultRecord, call.partial)
               /\ \A f \in DOMAIN call.partial :
                    \/ table.rows[i].row[f] = call.partial[f]
                    \/ \E v \in others : f \in DOMAIN table.writers[v].partial

\* C32: whatever non-negative series calculateRSI is given, the value it
\* returns is between 0 and 100; it is exactly 50 when the series has fewer
\* than period + 1 prices, and exactly 100 when none of the last `period`
\* changes is a fall, a flat series included.
C32_RsiRange ==
  indicator.asked =>
    LET prices == indicator.prices
        period == indicator.period
        rsi == indicator.rsi
        falls == {i \in (Len(prices) - period + 1)..Len(prices) :
                    prices[i] < prices[i - 1]}
    IN /\ rsi.den > 0
       /\ 0 <= rsi.num /\ rsi.num <= 100 * rsi.den
       /\ Len(prices) < period + 1 => rsi.num = 50 * rsi.den
       /\ (Len(prices) >= period + 1 /\ falls = {}) => rsi.num = 100 * rsi.den

\* thirty closes of 1000: no fall among the last fourteen changes, the RSI
\* is 100
C32_Witness ==
  /\ indicator.asked
  /\ indicator.prices = Flat /\ indicator.period = 14
  /\ indicator.rsi = [num |-> 100, den |-> 1]

\* C33: a service has one periodic timer once startLoop has been called and
\* none before, and a call of startLoop on a running service does nothing:
\* no second timer is ever installed.
C33_OneTimerPerService ==
  /\ timers = IF isRunning THEN 1 ELSE 0
  /\ isRunning => ~ENABLED StartLoop

\* the loop runs on its one timer and both firings have been served
C33_Witness ==
  /\ isRunning /\ timers = 1
  /\ now = StartTime + MaxTicks * TickMs
  /\ lastTick.users = <<"u1">>
  /\ ticks = [s \in Slots |-> IdleTick]

\* C34: one evaluation of a strategy for a user and a market places at most
\* one order and appends at most one trade-log entry, the entry of that
\* order.
C34_OneOrderPerEvaluation ==
  [][\A s \in Slots :
       Steps(s)
         => /\ attempts' <= attempts + 1
            /\ Len(tradeLogs') = Len(tradeLogs) + (attempts' - attempts)
            /\ attempts' > attempts =>
                 /\ tradeLogs'[Len(tradeLogs')].side = lastOrder'.side
                 /\ tradeLogs'[Len(tradeLogs')].market = lastOrder'.market
  ]_vars

\* a percent evaluation on a price below the reference bought once
C34_Witness ==
  /\ lastOrder.src = "bot" /\ lastOrder.strategy = "percent"
  /\ lastOrder.side = "bid"
  /\ attempts = 1 /\ Len(tradeLogs) = 1
  /\ tradeLogs[1].side = "bid"
  /\ ticks = [s \in Slots |-> IdleTick]

\* the settings the callback in slot s hands to the executor next
EvaluatedSettings(s) ==
  LET fetched == ticks[s].snap[EvaluatedUser(s)]
      alloc == marketsToTrade(fetched)[ticks[s].mi]
  IN marketSettings(fetched, alloc.market,
                    calculatedAmount(ParseOr(fetched.targetAmount, 10000), alloc))

\* C35: a percent or grid evaluation whose price fetch failed (price 0) or
\* whose balance fetch failed (balance 0) places no order, appends no log
\* entry and changes no state: with the price 0 the executor has the one
\* outcome that does nothing, every order it places was placed at a price and
\* on a balance above 0, an evaluation that placed no order left the log alone
\* and the row too, unless it initialized an unset referencePrice with a price
\* the exchange quoted, and referencePrice is never written as 0.
C35_FailedFetchDoesNothing ==
  [][\A s \in Slots :
       (Steps(s) /\ StrategyOf(ticks[s].snap[EvaluatedUser(s)]) \in {"percent", "grid"})
         => LET userId == EvaluatedUser(s)
                given == EvaluatedSettings(s)
                quotes == {p * RefScale : p \in PricesOf(given.market) \ {0}}
            IN /\ PercentAt(given, 0, now) = {NoEffect}
               /\ GridAt(given, 0, now) = {NoEffect}
               /\ attempts' > attempts
                    => lastOrder'.price > 0 /\ lastOrder'.balanceRead > 0
               /\ attempts' = attempts
                    => /\ tradeLogs' = tradeLogs
                       /\ \/ settings'[userId] = settings[userId]
                          \/ /\ AwaitingReference(given)
                             /\ \E q \in quotes :
                                  settings'[userId] =
                                    [settings[userId] EXCEPT !.referencePrice = q]
               /\ settings'[userId].referencePrice # 0
  ]_vars

\* a portfolio row without a reference was evaluated for both of its markets
\* and still has none: both price fetches failed, and nothing was placed,
\* logged or written
C35_Witness ==
  /\ settings["u1"] \in PortfolioRows
  /\ settings["u1"].referencePrice = Null
  /\ lastTick.users = <<"u1">>
  /\ lastTick.visited = {"u1"}
  /\ ~lastTick.threw
  /\ ticks = [s \in Slots |-> IdleTick]
  /\ isRunning
  /\ attempts = 0
  /\ tradeLogs = <<>>

\* the trades of one side the served backtest returned
ReturnedTrades(side) == SelectSeq(reports.backtest.result.trades, LAMBDA tr : tr.side = side)

\* C36: the accounting of a backtest is consistent: as many bids as asks, one
\* win or loss per ask (a close with profit above 0 is a win, any other one,
\* the close without profit too, a loss), totalTrades twice their number, and
\* totalProfit, the final balance less the initial one, the sum of the profits
\* of the asks.
C36_BacktestAccounting ==
  reports.backtest.ran =>
    LET result == reports.backtest.result
        asks == ReturnedTrades("ask")
        profits == [k \in 1..Len(asks) |-> asks[k].profit]
        wins == SelectSeq(asks, LAMBDA tr : tr.profit > 0)
    IN /\ Len(ReturnedTrades("bid")) = Len(asks)
       /\ result.winTrades = Len(wins)
       /\ result.lossTrades = Len(asks) - Len(wins)
       /\ result.winTrades + result.lossTrades = Len(asks)
       /\ result.totalTrades = 2 * (result.winTrades + result.lossTrades)
       /\ result.totalProfit = SumSeq(profits)

\* a backtest with one winning round trip and one closed without profit
C36_Witness ==
  /\ reports.backtest.ran
  /\ reports.backtest.result.totalTrades = 4
  /\ reports.backtest.result.winTrades = 1
  /\ reports.backtest.result.lossTrades = 1
  /\ ReturnedTrades("ask")[2].profit = 0
  /\ reports.backtest.result.totalProfit > 0

\* C37: right after a successful grid order the price it was placed at is less
\* than one effective step away from the referencePrice it left, on either
\* side: evaluated again at that price, gridLevels is 0 and no second order
\* follows.
C37_GridSettlesWithinOneStep ==
  [][\A s \in Slots :
       (/\ Steps(s)
        /\ StrategyOf(ticks[s].snap[EvaluatedUser(s)]) = "grid"
        /\ attempts' > attempts
        /\ lastOrder'.ok)
         => LET order == lastOrder'
                shifted == settings'[EvaluatedUser(s)].referencePrice
                offset == order.price * RefScale - shifted
                effectiveStep == Effective(ParseOr(order.given.buyThreshold, 100),
                                           getFeeBuffer(order.given))
                gridLevels == (Abs(offset) * BpScale) \div (effectiveStep * shifted)
            IN gridLevels = 0
  ]_vars

\* C38: in portfolio mode the referencePrice a market's price is compared
\* against was set from a price of that same market: whenever a callback is
\* about to evaluate a market of a portfolio user, the referencePrice it
\* fetched, if an evaluation wrote it (the rows are configured with none or
\* with 1000, which neither market is quoted at), is a price at which the
\* exchange quotes that market.
C38_ReferenceIsOfTheMarket ==
  \A s \in Slots :
    ticks[s].busy =>
      LET fetched == ticks[s].snap[EvaluatedUser(s)]
          quotes == {p * RefScale : p \in PricesOf(EvaluatedMarket(s)) \ {0}}
      IN (/\ Len(fetched.portfolioMarkets) > 0
          /\ fetched.referencePrice \notin {Null, 1000 * RefScale})
           => fetched.referencePrice \in quotes

\* C39: what a callback writes to the settings is partial: a step of a
\* callback changes no column of any row but referencePrice and lastTradeTime,
\* so what the user has changed since the callback fetched its rows
\* (strategy, thresholds, targetAmount, market, isActive, keys) stays as the
\* user left it, although the callback decides on the row it fetched.
C39_SchedulerWritesArePartial ==
  [][\A s \in Slots :
       Steps(s)
         => \A userId \in Users :
              \A f \in SettingsFields \ {"referencePrice", "lastTradeTime"} :
                settings'[userId][f] = settings[userId][f]
  ]_vars

\* the user switched to grid after the first firing and before the second
\* (the second firing took the user out of `fresh`); after the second firing
\* the callback of the first, still holding the row with the percent
\* strategy, placed a successful order and wrote its reference and time: the
\* row is still a grid row
C39_Witness ==
  /\ lastUpdate.served /\ lastUpdate.status = 200
  /\ lastUpdate.userId = "u1" /\ lastUpdate.updates = [strategy |-> "grid"]
  /\ fresh = {}
  /\ lastOrder.src = "bot" /\ lastOrder.userId = "u1" /\ lastOrder.ok
  /\ lastOrder.given.strategy = ""
  /\ lastOrder.time = StartTime + 2 * TickMs
  /\ settings["u1"].strategy = "grid"
  /\ settings["u1"].lastTradeTime = lastOrder.time
  /\ settings["u1"].referencePrice = lastOrder.price * RefScale

====
